---- MODULE Spec2Model ----
(***************************************************************************)
(* Model of the two stateful cores of openagent:                           *)
(*   - the SSE decoder  Sse::poll_next          (src/src/http.rs)          *)
(*   - the ReAct loop   run_agent_stream & co.  (src/src/agent.rs)         *)
(* Text is modelled as a sequence of characters (one-character strings),   *)
(* so that trimming, prefix stripping, joining and byte-offset slicing are *)
(* computed the way the code computes them.                                *)
(***************************************************************************)
EXTENDS Integers, Sequences, FiniteSets, TLC

VARIABLES
    \* ---- SSE decoder (struct Sse, http.rs:373-398) ----
    data,          \* Sse.data: payload buffer
    unexpected,    \* Sse.unexpected: buffer of non-SSE lines
    last_event,    \* Sse.last_event: <<event type, event id>>, each an Option
    drop_event,    \* Sse.options.drop_event
    framer,        \* state of the upstream line stream: "open" | "errored" | "eof"
    lineLog,       \* history: raw lines the framer has yielded so far
    polls,         \* history: values returned by poll_next, in order
    calls,         \* history: handler invocations, in order
    \* ---- agent run (run_agent_stream, agent.rs:916-1077) ----
    max_steps,     \* agent.options.max_steps
    tools,         \* agent.tools: name -> tool (its supports_stream flag)
    state,         \* AgentState: reasoning_steps, tool_calls, metadata
    state0,        \* history: the AgentState the caller handed to react_stream
    pc,            \* position of the run's task
    step,          \* loop variable of `for step in 0..max_steps`
    stream,        \* tokens the reasoning stream has still to yield
    token_buffer,  \* token_buffer
    full_reasoning,\* full_reasoning
    tool_req,      \* the ToolCall in flight, None otherwise
    tool_stream,   \* chunks the tool's stream has still to yield
    acc,           \* call_tool's acc
    pending,       \* value about to be sent by call_tool (chunk or result)
    events,        \* history: events sent on tx, in order
    requests,      \* history: number of reasoning requests issued
    invocations,   \* history: tool invocations, in order
    run_result,    \* what run_agent_stream returned: None | Some("Ok") | Some("Err")
    prompt,        \* history: the prompt of the latest reasoning request, None before
    \* ---- event channel of a run (react_stream, agent.rs:73-85) ----
    chan,          \* events buffered in the mpsc channel, oldest first
    rx,            \* the consumer's end: "reading" | "stopped" | "dropped"
    sent,          \* number of entries of events whose send has returned
    delivered,     \* history: events the consumer has taken, in order
    \* ---- the caller's Agent and the runs started on it (agent.rs:29-85) ----
    registry,      \* Agent.tools of the caller's agent: name -> tool
    task,          \* the run whose task the fields above belong to: 1 | 2
    other,         \* the fields of the other run, None when there is none
    \* ---- an enum of impl_serializable_deserializable_enum! (util.rs:145-239) ----
    decl,          \* the declaration: the variants and their strings, in order
    wire,          \* the latest serialisation: Some of variant and string
    parsed         \* the latest deserialisation: Some of input and result

sseVars == <<data, unexpected, last_event, drop_event, framer, lineLog, polls, calls>>

chanVars == <<chan, rx, sent, delivered>>

callerVars == <<registry, task, other>>

enumVars == <<decl, wire, parsed>>

agentVars == <<max_steps, tools, state, state0, pc, step, stream, token_buffer, full_reasoning,
               tool_req, tool_stream, acc, pending, events, requests, invocations,
               run_result, prompt, chan, rx, sent, delivered, registry, task, other>>

vars == <<data, unexpected, last_event, drop_event, framer, lineLog, polls, calls,
          max_steps, tools, state, state0, pc, step, stream, token_buffer, full_reasoning,
          tool_req, tool_stream, acc, pending, events, requests, invocations,
          run_result, prompt, chan, rx, sent, delivered, registry, task, other,
          decl, wire, parsed>>

----------------------------------------------------------------------------
(* Bounds *)
MaxLines == 3      \* lines the framer yields in one response
MaxRepoll == 1     \* polls the consumer makes after poll_next returned None
MaxSteps == 2      \* largest max_steps a run is configured with

----------------------------------------------------------------------------
(* Text helpers: str::trim, str::strip_prefix, str::starts_with *)

None == <<>>
Some(x) == <<x>>

IsWhitespace(c) == c \in {" ", "\t", "\r", "\n"}

RECURSIVE TrimStart(_)
TrimStart(s) ==
    IF s = <<>> THEN <<>>
    ELSE IF IsWhitespace(Head(s)) THEN TrimStart(Tail(s)) ELSE s

RECURSIVE TrimEnd(_)
TrimEnd(s) ==
    IF s = <<>> THEN <<>>
    ELSE IF IsWhitespace(s[Len(s)]) THEN TrimEnd(SubSeq(s, 1, Len(s) - 1)) ELSE s

Trim(s) == TrimEnd(TrimStart(s))

StartsWith(s, p) == Len(s) >= Len(p) /\ SubSeq(s, 1, Len(p)) = p

\* str::strip_prefix: Some(rest) when s starts with p, else None
StripPrefix(s, p) ==
    IF StartsWith(s, p) THEN Some(SubSeq(s, Len(p) + 1, Len(s))) ELSE None

\* String::push('\n') when non-empty, then push_str(chunk)
PushJoined(buf, chunk) == IF buf # <<>> THEN buf \o <<"\n">> \o chunk ELSE chunk

----------------------------------------------------------------------------
(* SSE wire literals (http.rs:436-464) *)
P_DATA  == <<"d", "a", "t", "a", ":", " ">>
P_EVENT == <<"e", "v", "e", "n", "t", ":", " ">>
P_ID    == <<"i", "d", ":", " ">>
P_RETRY == <<"r", "e", "t", "r", "y", ":", " ">>
DONE    == <<"[", "D", "O", "N", "E", "]">>

\* Raw lines the line framer may yield (LinesCodec strips only the newline).
RawLines ==
    { <<>>,                       \* blank line
      P_DATA \o <<"a">>,          \* data: a
      P_DATA \o <<"b", " ">>,     \* data: b<space>
      P_DATA,                     \* data: <empty chunk>
      P_DATA \o DONE,             \* data: [DONE]
      P_EVENT \o <<"e">>,         \* event: e
      P_ID \o <<"1">>,            \* id: 1
      P_RETRY \o <<"x">>,         \* retry: x (malformed integer)
      P_RETRY \o <<"5">>,         \* retry: 5
      P_EVENT,                    \* event: <empty name>
      P_ID,                       \* id: <empty id>
      P_RETRY,                    \* retry: <empty interval>
      <<":", "c">>,               \* comment
      <<"{", "}">> }              \* bare JSON body without SSE framing

\* Items of the decoder's output sequence
OkItem(payload) == [tag |-> "Ok", val |-> payload]
ErrItem(src)    == [tag |-> "Err", src |-> src]
End             == [tag |-> "End"]

Call(fn, arg, ok) == [fn |-> fn, arg |-> arg, ok |-> ok]

\* The consumer may poll: always before the first None, and at most
\* MaxRepoll times after a None.
EndCount == Cardinality({i \in 1..Len(polls) : polls[i] = End})
LastIsEnd == polls # <<>> /\ polls[Len(polls)] = End
CanPoll == ~LastIsEnd \/ EndCount <= MaxRepoll

----------------------------------------------------------------------------
\* No enum is being serialised or deserialised.
EnumUnused == decl = <<>> /\ wire = <<>> /\ parsed = <<>>

\* mpsc::channel(32), agent.rs:74: nothing buffered, the consumer holds rx
ChanEmpty == chan = <<>> /\ rx = "reading" /\ sent = 0 /\ delivered = <<>>

\* No run has been started on the agent.
AgentIdle ==
    /\ max_steps = 0
    /\ tools = <<>>
    /\ state = [reasoning_steps |-> <<>>, tool_calls |-> <<>>,
                metadata |-> [total_steps |-> 0, tool_calls_count |-> 0, completed |-> FALSE]]
    /\ state0 = state
    /\ pc = "idle"
    /\ step = 0
    /\ stream = <<>>
    /\ token_buffer = <<>>
    /\ full_reasoning = <<>>
    /\ tool_req = None
    /\ tool_stream = <<>>
    /\ acc = <<>>
    /\ pending = None
    /\ events = <<>>
    /\ requests = 0
    /\ invocations = <<>>
    /\ run_result = None
    /\ prompt = None
    /\ ChanEmpty
    /\ registry = <<>>
    /\ task = 1
    /\ other = None

(* Sse construction (http.rs:310-316): last_event id seeded by resume *)
SseInit ==
    /\ AgentIdle
    /\ EnumUnused
    /\ data = <<>>
    /\ unexpected = <<>>
    /\ last_event \in {<<None, None>>, <<None, Some(<<"0">>)>>}
    /\ drop_event \in BOOLEAN
    /\ framer = "open"
    /\ lineLog = <<>>
    /\ polls = <<>>
    /\ calls = <<>>

\* Mutant of ClearEventType: the boundary clears the event id as well.
ClearEventType_AndId(le) == <<None, None>>

\* this.last_event.0 = None, http.rs:424-425
ClearEventType(le) == <<None, le[2]>>

\* Mutant of EventFieldKept: the drop-event option is not consulted.
EventFieldKept_Always == TRUE

\* !this.options.drop_event, http.rs:449
EventFieldKept == ~drop_event

\* Mutant of IsComment: no line is taken for a comment.
IsComment_Never(line) == FALSE

\* line.starts_with(':'), http.rs:464
IsComment(line) == StartsWith(line, <<":">>)

\* retry_ms.parse::<u64>(), http.rs:461: Ok for a non-empty string of digits
ParseU64(s) ==
    s # <<>> /\ \A k \in 1..Len(s) : s[k] \in {"0", "1", "2", "3", "4", "5", "6", "7", "8", "9"}

(* One upstream line through the body of the loop, http.rs:410-475.       *)
(* ok is the result of the handler the line invokes, if it invokes one.    *)
\* Mutant of RecordOpen: every blank line closes a record.
RecordOpen_Always(buf) == TRUE

\* !this.data.is_empty(), http.rs:416: a blank line closes a record only
\* when the payload buffer holds something
RecordOpen(buf) == buf # <<>>

PollNextLine(raw, ok) ==
    LET line == Trim(raw)
        d    == StripPrefix(line, P_DATA)
        e    == StripPrefix(line, P_EVENT)
        i    == StripPrefix(line, P_ID)
        r    == StripPrefix(line, P_RETRY)
    IN
    /\ CanPoll
    /\ framer = "open"
    /\ Len(lineLog) < MaxLines
    /\ lineLog' = Append(lineLog, raw)
    /\ UNCHANGED <<drop_event, framer>>
    /\ UNCHANGED agentVars
    /\ UNCHANGED enumVars
    /\ IF line = <<>> THEN
            IF RecordOpen(data) THEN
                /\ data' = <<>>
                /\ calls' = Append(calls, Call("handle_data", data, ok))
                /\ last_event' = ClearEventType(last_event)
                /\ polls' = Append(polls, IF ok THEN OkItem(data) ELSE ErrItem("handle_data"))
                /\ UNCHANGED unexpected
            ELSE
                /\ ok
                /\ UNCHANGED <<data, unexpected, last_event, polls, calls>>
       ELSE IF d # None THEN
            IF d[1] = DONE THEN
                /\ ok
                /\ polls' = Append(polls, End)
                /\ UNCHANGED <<data, unexpected, last_event, calls>>
            ELSE
                /\ ok
                /\ data' = PushJoined(data, d[1])
                /\ UNCHANGED <<unexpected, last_event, polls, calls>>
       ELSE IF e # None THEN
            IF EventFieldKept THEN
                /\ last_event' = <<Some(e[1]), last_event[2]>>
                /\ calls' = Append(calls, Call("handle_event", e[1], ok))
                /\ polls' = IF ok THEN polls ELSE Append(polls, ErrItem("handle_event"))
                /\ UNCHANGED <<data, unexpected>>
            ELSE
                /\ ok
                /\ UNCHANGED <<data, unexpected, last_event, polls, calls>>
       ELSE IF i # None THEN
            /\ ok
            /\ last_event' = <<last_event[1], Some(i[1])>>
            /\ UNCHANGED <<data, unexpected, polls, calls>>
       ELSE IF r # None THEN
            \* the interval is parsed and ignored, parsed or not
            /\ ok
            /\ IF ParseU64(r[1])
               THEN UNCHANGED <<data, unexpected, last_event, polls, calls>>
               ELSE UNCHANGED <<data, unexpected, last_event, polls, calls>>
       ELSE IF IsComment(line) THEN
            /\ ok
            /\ UNCHANGED <<data, unexpected, last_event, polls, calls>>
       ELSE
            /\ ok
            /\ unexpected' = PushJoined(unexpected, line)
            /\ UNCHANGED <<data, last_event, polls, calls>>

(* The framer yields an error, http.rs:476. FramedRead ends its stream     *)
(* after an error: the next poll of it yields None.                        *)
PollNextFramerErr ==
    /\ CanPoll
    /\ framer = "open"
    /\ framer' = "errored"
    /\ polls' = Append(polls, ErrItem("framer"))
    /\ UNCHANGED <<data, unexpected, last_event, drop_event, lineLog, calls>>
    /\ UNCHANGED agentVars
    /\ UNCHANGED enumVars

\* Mutant of PollNextEnd: the unexpected buffer is read but not taken.
PollNextEnd_KeepsBuffer(ok) ==
    /\ CanPoll
    /\ framer' = "eof"
    /\ IF unexpected # <<>> THEN
            /\ calls' = Append(calls, Call("handle_unexpected", unexpected, ok))
            /\ polls' = Append(polls, IF ok THEN End ELSE ErrItem("handle_unexpected"))
            /\ UNCHANGED unexpected
       ELSE
            /\ ok
            /\ polls' = Append(polls, End)
            /\ UNCHANGED <<unexpected, calls>>
    /\ UNCHANGED <<data, last_event, drop_event, lineLog>>
    /\ UNCHANGED agentVars
    /\ UNCHANGED enumVars

(* The framer yields None, http.rs:477-490 *)
PollNextEnd(ok) ==
    /\ CanPoll
    /\ framer' = "eof"
    /\ IF unexpected # <<>> THEN
            /\ unexpected' = <<>>
            /\ calls' = Append(calls, Call("handle_unexpected", unexpected, ok))
            /\ polls' = Append(polls, IF ok THEN End ELSE ErrItem("handle_unexpected"))
       ELSE
            /\ ok
            /\ polls' = Append(polls, End)
            /\ UNCHANGED <<unexpected, calls>>
    /\ UNCHANGED <<data, last_event, drop_event, lineLog>>
    /\ UNCHANGED agentVars
    /\ UNCHANGED enumVars

SseNext ==
    \/ \E raw \in RawLines, ok \in BOOLEAN : PollNextLine(raw, ok)
    \/ PollNextFramerErr
    \/ \E ok \in BOOLEAN : PollNextEnd(ok)

SseSpec == SseInit /\ [][SseNext]_vars

----------------------------------------------------------------------------
(* Text as the agent sees it: Rust strings are UTF-8, offsets are bytes.   *)
(* A character is named by a one-character string, or by the name of a     *)
(* non-ASCII scalar: KELVIN is U+212A (3 bytes, lowercases to k), IDOT is  *)
(* U+0130 (2 bytes, lowercases to i followed by U+0307, 1 + 2 bytes).      *)

Width(c) == CASE c = "KELVIN" -> 3 [] c = "IDOT" -> 2 [] c = "COMBDOT" -> 2 [] OTHER -> 1

RECURSIVE ByteLen(_)
ByteLen(s) == IF s = <<>> THEN 0 ELSE Width(Head(s)) + ByteLen(Tail(s))

\* char::to_lowercase
LowerChar(c) ==
    CASE c = "F" -> <<"f">> [] c = "A" -> <<"a">> [] c = "I" -> <<"i">>
      [] c = "N" -> <<"n">> [] c = "L" -> <<"l">> [] c = "S" -> <<"s">>
      [] c = "W" -> <<"w">> [] c = "E" -> <<"e">> [] c = "R" -> <<"r">>
      [] c = "KELVIN" -> <<"k">>
      [] c = "IDOT" -> <<"i", "COMBDOT">>
      [] OTHER -> <<c>>

\* str::to_lowercase
RECURSIVE to_lowercase(_)
to_lowercase(s) == IF s = <<>> THEN <<>> ELSE LowerChar(Head(s)) \o to_lowercase(Tail(s))

\* Character indexes (1-based) at which needle occurs in hay
Occurrences(hay, needle) ==
    {k \in 1..(Len(hay) - Len(needle) + 1) : SubSeq(hay, k, k + Len(needle) - 1) = needle}

Min(S) == CHOOSE x \in S : \A y \in S : x <= y
Max(S) == CHOOSE x \in S : \A y \in S : x >= y

Contains(hay, needle) == Occurrences(hay, needle) # {}

\* str::find: byte offset of the first occurrence
Find(hay, needle) ==
    IF Occurrences(hay, needle) = {} THEN None
    ELSE Some(ByteLen(SubSeq(hay, 1, Min(Occurrences(hay, needle)) - 1)))

\* &text[b..] for a byte offset b: panics when b is beyond the end or not
\* on a character boundary
SliceFrom(text, b) ==
    LET cut == {k \in 0..Len(text) : ByteLen(SubSeq(text, 1, k)) = b}
    IN IF cut = {} THEN [tag |-> "Panic"]
       ELSE [tag |-> "Ok", val |-> SubSeq(text, Min(cut) + 1, Len(text))]

MARKER == <<"f", "i", "n", "a", "l", " ", "a", "n", "s", "w", "e", "r", ":">>

(* extract_final_answer, agent.rs:1086-1100: the offset found in the       *)
(* lowercased copy is applied to the original text.                        *)
extract_final_answer(text) ==
    LET lower_text == to_lowercase(text)
        pos == Find(lower_text, MARKER)
    IN IF pos = None THEN [tag |-> "None"]
       ELSE LET after_marker == SliceFrom(text, pos[1] + ByteLen(MARKER))
            IN IF after_marker.tag = "Panic" THEN [tag |-> "Panic"]
               ELSE IF Trim(after_marker.val) # <<>>
                    THEN [tag |-> "Some", val |-> Trim(after_marker.val)]
                    ELSE [tag |-> "None"]

----------------------------------------------------------------------------
(* Tool-call extraction, agent.rs:281-328 *)

Q == "\""
J_T == <<"{", Q, "t", "o", "o", "l", Q, ":", Q, "t", Q, ",",
         Q, "a", "r", "g", "s", Q, ":", "1", "}">>      \* {"tool":"t","args":1}
J_S == <<"{", Q, "t", "o", "o", "l", Q, ":", Q, "s", Q, "}">>   \* {"tool":"s"}
J_U == <<"{", Q, "t", "o", "o", "l", Q, ":", Q, "u", Q, "}">>   \* {"tool":"u"}
J_N == <<"{", Q, "n", Q, ":", "1", "}">>                        \* {"n":1}

\* serde_json::from_str::<Value> on the documents the model's texts contain:
\* Some(the fields parse_tool_call reads) for valid JSON, None for a parse error.
\* tool is Some(name) when the value has a string field tool; args is the
\* args field, Value::Null when absent.
from_str(c) ==
    CASE c = J_T -> Some([tool |-> Some(<<"t">>), args |-> <<"1">>])
      [] c = J_S -> Some([tool |-> Some(<<"s">>), args |-> <<"n", "u", "l", "l">>])
      [] c = J_U -> Some([tool |-> Some(<<"u">>), args |-> <<"n", "u", "l", "l">>])
      [] c = J_N -> Some([tool |-> None, args |-> <<"n", "u", "l", "l">>])
      [] c = <<"1">> -> Some([tool |-> None, args |-> <<"n", "u", "l", "l">>])
      [] OTHER -> None

FENCE_JSON == <<"BT", "BT", "BT", "j", "s", "o", "n">>
FENCE      == <<"BT", "BT", "BT">>
ACTION_INPUT == <<"A", "c", "t", "i", "o", "n", " ", "I", "n", "p", "u", "t", ":">>

\* s.split(sep).nth(0): the text before the first sep
BeforeFirst(s, sep) ==
    IF Occurrences(s, sep) = {} THEN s ELSE SubSeq(s, 1, Min(Occurrences(s, sep)) - 1)

\* the text after the first sep; only used when sep occurs
AfterFirst(s, sep) == SubSeq(s, Min(Occurrences(s, sep)) + Len(sep), Len(s))

\* s.split(sep).nth(1)
SplitNth1(s, sep) ==
    IF Occurrences(s, sep) = {} THEN None ELSE Some(BeforeFirst(AfterFirst(s, sep), sep))

\* str::lines
RECURSIVE Lines(_)
Lines(s) ==
    IF s = <<>> THEN <<>>
    ELSE IF Occurrences(s, <<"\n">>) = {} THEN <<s>>
    ELSE <<BeforeFirst(s, <<"\n">>)>> \o Lines(AfterFirst(s, <<"\n">>))

\* candidate (b): content of the first fenced block labelled json
\* ("BT" names the backtick character)
CandidateFence(output) ==
    IF SplitNth1(output, FENCE_JSON) = None THEN <<>>
    ELSE Trim(BeforeFirst(SplitNth1(output, FENCE_JSON)[1], FENCE))

\* candidate (c): output[start..=end] from the first '{' to the last '}';
\* the range panics when it starts after end + 1
CandidateBraces(output) ==
    LET opens  == Occurrences(output, <<"{">>)
        closes == Occurrences(output, <<"}">>)
    IN IF opens = {} \/ closes = {} THEN [tag |-> "Ok", val |-> <<>>]
       ELSE IF Min(opens) > Max(closes) + 1 THEN [tag |-> "Panic"]
       ELSE [tag |-> "Ok", val |-> SubSeq(output, Min(opens), Max(closes))]

\* candidate (d): text after Action Input: on the first line starting with it
CandidateActionInput(output) ==
    LET ls   == Lines(output)
        hits == {k \in 1..Len(ls) : StartsWith(Trim(ls[k]), ACTION_INPUT)}
    IN IF hits = {} THEN <<>>
       ELSE Trim(SplitNth1(ls[Min(hits)], ACTION_INPUT)[1])

\* the loop over the candidates, agent.rs:307-323
RECURSIVE FirstToolCall(_)
FirstToolCall(cands) ==
    IF cands = <<>> THEN [tag |-> "None"]
    ELSE LET c == Head(cands)
             v == from_str(c)
         IN IF c # <<>> /\ v # None /\ v[1].tool # None
            THEN [tag |-> "Some", name |-> v[1].tool[1], args |-> v[1].args]
            ELSE FirstToolCall(Tail(cands))

parse_tool_call(output) ==
    IF CandidateBraces(output).tag = "Panic" THEN [tag |-> "Panic"]
    ELSE FirstToolCall(<< Trim(output), CandidateFence(output),
                          CandidateBraces(output).val, CandidateActionInput(output) >>)

----------------------------------------------------------------------------
(* Reasoning texts the reasoning service may stream, as token sequences    *)

FINAL_ANSWER == <<"F", "i", "n", "a", "l", " ", "A", "n", "s", "w", "e", "r", ":">>

RECURSIVE Concat(_)
Concat(toks) == IF toks = <<>> THEN <<>> ELSE Head(toks) \o Concat(Tail(toks))

\* An error item of the SSE sequence behind the reasoning stream (an Err of
\* a handler or of the transport); every other item is a token, the delta
\* content of an Ok item.
SseError == <<"Err">>

R_NONE   == <<>>                                      \* the stream yields no token
R_BLANK  == << <<" ">>, <<"\n">> >>                   \* whitespace only
R_THINK  == << <<"h">>, <<"m">> >>                    \* a thought, no action
R_FINAL  == << <<"o", "k", " ">>, FINAL_ANSWER, <<" ", "4", "2">> >>
R_MARKER == << <<"f", "i", "n", "a", "l", " ">>, <<"a", "n", "s", "w", "e", "r", ":", " ">> >>
R_KELVIN == << <<"KELVIN", " ">>, FINAL_ANSWER, <<" ", "4", "2">> >>
R_IDOT   == << <<"IDOT", "IDOT", "IDOT", " ">>, FINAL_ANSWER, <<" ", "4">> >>
R_T      == << <<"{", Q, "t", "o", "o", "l", Q>>, <<":">>, <<Q, "t", Q>>, <<",">>,
               <<Q, "a", "r", "g", "s", Q>>, <<":", "1">>, <<"}">> >>
R_S      == << J_S >>
R_U      == << <<"{", Q, "t", "o">>, <<"o", "l", Q, ":", Q, "u", Q, "}">> >>
R_BRACES == << <<"}", " ">>, <<"{">> >>               \* a } only before the first {
\* a fenced block naming s, then an Action Input line naming t
R_FENCE  == << <<"o", "k", "\n">> \o FENCE_JSON \o <<"\n">> \o J_S \o <<"\n">> \o FENCE,
               <<"\n">> \o ACTION_INPUT \o <<" ">> \o J_T >>
\* an Action Input line naming t after a line with an empty object
R_ACTION == << <<"{", "}", "\n", " ">> \o ACTION_INPUT, <<" ">> \o J_T \o <<" ", "\n">> >>
\* an object without a tool field, in prose
R_NOTOOL == << <<"s", "e", "e", " ">>, J_N >>

\* a thought with an error item between its two tokens
R_ERR    == << <<"h">>, SseError, <<"m">> >>

\* a long thought streamed one character at a time, enough events to fill
\* the channel of a run
R_LONG   == [k \in 1..15 |-> <<"a">>]

ReasoningTexts == {R_NONE, R_BLANK, R_ERR, R_FINAL, R_MARKER, R_KELVIN, R_IDOT, R_T, R_S, R_U,
                   R_BRACES, R_FENCE, R_ACTION, R_NOTOOL}

----------------------------------------------------------------------------
(* AgentState and AgentEvent, agent.rs:674-880 *)

NewMetadata == [total_steps |-> 0, tool_calls_count |-> 0, completed |-> FALSE]

\* AgentState::new
NewState == [reasoning_steps |-> <<>>, tool_calls |-> <<>>, metadata |-> NewMetadata]

\* Mutant of add_step: the step is pushed but not counted.
add_step_NoCount(st, reasoning) ==
    [st EXCEPT !.reasoning_steps = Append(@, reasoning)]

\* AgentState::add_step
add_step(st, reasoning) ==
    [st EXCEPT !.reasoning_steps = Append(@, reasoning),
               !.metadata.total_steps = @ + 1]

\* Mutant of add_tool_call: the result is pushed but not counted.
add_tool_call_NoCount(st, result) ==
    [st EXCEPT !.tool_calls = Append(@, result)]

\* AgentState::add_tool_call
add_tool_call(st, result) ==
    [st EXCEPT !.tool_calls = Append(@, result),
               !.metadata.tool_calls_count = @ + 1]

\* AgentMetadata::complete
complete(st) == [st EXCEPT !.metadata.completed = TRUE]

\* AgentState::is_complete
is_complete(st) ==
    \E k \in 1..Len(st.reasoning_steps) : Contains(to_lowercase(st.reasoning_steps[k]), MARKER)

\* ToolCallResult::success / ToolCallResult::err
Success(name, args, result) ==
    [tool_call |-> [name |-> name, args |-> args],
     outcome |-> [tag |-> "Success", result |-> result]]
ToolErr(name, args, message) ==
    [tool_call |-> [name |-> name, args |-> args],
     outcome |-> [tag |-> "Error", message |-> message]]

\* Error::to_string of the errors a run meets
MsgUnknown(name) == <<"unknown tool", name>>
MsgTimeout       == <<"timeout">>
MsgToolFailed    == <<"tool failed">>
MsgStreamFailed  == <<"stream failed">>
MsgReasoning     == <<"reasoning failed">>
MsgMaxSteps(n)   == <<"maximum steps reached", n>>

Started(n, names)       == [type |-> "started", max_steps |-> n, tools |-> names]
ReasoningToken(c)       == [type |-> "reasoningToken", content |-> c]
ReasoningStepDone(c)    == [type |-> "reasoningStepDone", content |-> c]
ToolCallEvent(name, a)  == [type |-> "toolCall", name |-> name, args |-> a]
ToolResult(name, r, st) == [type |-> "toolResult", name |-> name, result |-> r, is_streaming |-> st]
FinalAnswer(c)          == [type |-> "finalAnswer", content |-> c]
ErrorEvent(m)           == [type |-> "error", message |-> m]
\* Mutant of Metadata: the event carries a new AgentMetadata.
Metadata_Default(md) == [type |-> "metadata", data |-> NewMetadata]
Metadata(md) == [type |-> "metadata", data |-> md]
Completed(ok, n)        == [type |-> "completed", success |-> ok, total_steps |-> n]

RECURSIVE TokenEvents(_)
TokenEvents(toks) ==
    IF toks = <<>> THEN <<>> ELSE <<ReasoningToken(Head(toks))>> \o TokenEvents(Tail(toks))

\* The registry of the agent: t has only the synchronous path, s streams.
Registry == (<<"t">> :> [supports_stream |-> FALSE]) @@ (<<"s">> :> [supports_stream |-> TRUE])

\* Chunk sequences a tool's stream may produce, results a call may return
ToolStreams == { <<>>, << <<"x">> >>, << <<"x">>, <<"y", "z">> >> }
ToolValues  == { <<"v">> }

\* AgentState.input of the run (agent.rs:676)
Input == <<"q">>

\* One line of the prompt: its label, the number of a Thought line (0 on the
\* other lines) and the text formatted after the label.
PromptLine(label, n, text) == [label |-> label, n |-> n, text |-> text]
BlankLine == PromptLine("", 0, <<>>)

\* The lines build_prompt writes for the steps i.. of the history: the i-th
\* reasoning step and, when tool_calls.get(i) is Some, the i-th tool call
\* (agent.rs:167-189; i is 1-based here)
RECURSIVE PromptHistory(_, _)
PromptHistory(st, i) ==
    IF i > Len(st.reasoning_steps) THEN <<>>
    ELSE << PromptLine("Thought", i, st.reasoning_steps[i]) >>
         \o (IF i <= Len(st.tool_calls)
             THEN << PromptLine("Action", 0, st.tool_calls[i].tool_call.name),
                     PromptLine("Action Input", 0, st.tool_calls[i].tool_call.args),
                     IF st.tool_calls[i].outcome.tag = "Success"
                        THEN PromptLine("Observation", 0, st.tool_calls[i].outcome.result)
                        ELSE PromptLine("Error", 0, st.tool_calls[i].outcome.message),
                     BlankLine >>
             ELSE <<>>)
         \o PromptHistory(st, i + 1)

\* Agent::build_prompt, agent.rs:163-198, as the sequence of its lines
build_prompt(st) ==
    << PromptLine("Question", 0, Input), BlankLine >>
    \o PromptHistory(st, 1)
    \o << PromptLine("Thought", Len(st.reasoning_steps) + 1, <<>>) >>

\* States a caller may hand to react_stream: a fresh one, or one built with
\* add_step from an earlier conversation.
InitialStates ==
    { NewState,
      add_step(NewState, Concat(R_THINK)),
      add_step(NewState, Concat(R_FINAL)),
      add_step(add_step(NewState, Concat(R_FINAL)), Concat(R_THINK)),
      add_step(NewState, Concat(R_IDOT)) }

SseUnused ==
    /\ data = <<>> /\ unexpected = <<>> /\ last_event = <<None, None>>
    /\ drop_event = FALSE /\ framer = "open" /\ lineLog = <<>> /\ polls = <<>> /\ calls = <<>>

\* react_stream, agent.rs:73-85: the run's task is spawned with a clone of
\* the agent and the caller's state.
Init ==
    /\ SseUnused
    /\ EnumUnused
    /\ max_steps \in 0..MaxSteps
    /\ tools = Registry
    /\ state \in InitialStates
    /\ state0 = state
    /\ pc = "spawned"
    /\ step = 0
    /\ stream = <<>>
    /\ token_buffer = <<>>
    /\ full_reasoning = <<>>
    /\ tool_req = None
    /\ tool_stream = <<>>
    /\ acc = <<>>
    /\ pending = None
    /\ events = <<>>
    /\ requests = 0
    /\ invocations = <<>>
    /\ run_result = None
    /\ prompt = None
    /\ ChanEmpty
    /\ registry = Registry
    /\ task = 1
    /\ other = None

Invocation(name, kind, args) == [tool |-> name, kind |-> kind, args |-> args]

\* agent.rs:923-924
RunStart ==
    /\ pc = "spawned"
    /\ events' = Append(events, Started(max_steps, DOMAIN tools))
    /\ pc' = "loop"
    /\ UNCHANGED <<max_steps, tools, state0, prompt, state, step, stream, token_buffer, full_reasoning,
                   tool_req, tool_stream, acc, pending, requests, invocations, run_result>>
    /\ UNCHANGED sseVars
    /\ UNCHANGED enumVars
    /\ UNCHANGED chanVars
    /\ UNCHANGED callerVars

\* Mutant of InLoop: the range includes max_steps.
InLoop_Inclusive == step <= max_steps

\* `for step in 0..max_steps`, agent.rs:926: the loop has an iteration left
InLoop == step < max_steps

\* Mutant of HeadCheck: the answer is looked for in the first step that has
\* the marker instead of the last step.
HeadCheck_AnyStep ==
    IF is_complete(state)
    THEN extract_final_answer(state.reasoning_steps[
             Min({k \in 1..Len(state.reasoning_steps) :
                     Contains(to_lowercase(state.reasoning_steps[k]), MARKER)})])
    ELSE [tag |-> "None"]

\* The completion check at the head of an iteration, agent.rs:929-943
HeadCheck ==
    IF is_complete(state)
    THEN extract_final_answer(state.reasoning_steps[Len(state.reasoning_steps)])
    ELSE [tag |-> "None"]

\* agent.rs:929-943: the check ends the run (or the slice in
\* extract_final_answer panics and kills the task)
RunAlreadyComplete ==
    /\ pc = "loop"
    /\ InLoop
    /\ HeadCheck.tag # "None"
    /\ IF HeadCheck.tag = "Panic"
       THEN /\ pc' = "panicked"
            /\ UNCHANGED <<events, run_result>>
       ELSE /\ events' = events \o << FinalAnswer(HeadCheck.val),
                                     Completed(TRUE, state.metadata.total_steps) >>
            /\ run_result' = Some("Ok")
            /\ pc' = "returned"
    /\ UNCHANGED <<max_steps, tools, state0, prompt, state, step, stream, token_buffer, full_reasoning,
                   tool_req, tool_stream, acc, pending, requests, invocations>>
    /\ UNCHANGED sseVars
    /\ UNCHANGED enumVars
    /\ UNCHANGED chanVars
    /\ UNCHANGED callerVars

\* agent.rs:945-953: the prompt is built, the reasoning request succeeds and a
\* token stream opens
RunRequestReasoning(text) ==
    /\ pc = "loop"
    /\ InLoop
    /\ HeadCheck.tag = "None"
    /\ prompt' = Some(build_prompt(state))
    /\ requests' = requests + 1
    /\ stream' = text
    /\ token_buffer' = <<>>
    /\ full_reasoning' = <<>>
    /\ pc' = "reasoning"
    /\ UNCHANGED <<max_steps, tools, state0, state, step, tool_req, tool_stream, acc, pending,
                   events, invocations, run_result>>
    /\ UNCHANGED sseVars
    /\ UNCHANGED enumVars
    /\ UNCHANGED chanVars
    /\ UNCHANGED callerVars

\* Mutant of RunReasoningFailed: the error is returned without the
\* Completed event.
RunReasoningFailed_NoCompleted ==
    /\ pc = "loop"
    /\ InLoop
    /\ HeadCheck.tag = "None"
    /\ prompt' = Some(build_prompt(state))
    /\ requests' = requests + 1
    /\ state' = complete(state)
    /\ events' = Append(events, ErrorEvent(MsgReasoning))
    /\ run_result' = Some("Err")
    /\ pc' = "returned"
    /\ UNCHANGED <<max_steps, tools, state0, step, stream, token_buffer, full_reasoning,
                   tool_req, tool_stream, acc, pending, invocations>>
    /\ UNCHANGED sseVars
    /\ UNCHANGED enumVars
    /\ UNCHANGED chanVars
    /\ UNCHANGED callerVars

\* agent.rs:945-948, 1038-1054: the prompt is built, the reasoning request fails
RunReasoningFailed ==
    /\ pc = "loop"
    /\ InLoop
    /\ HeadCheck.tag = "None"
    /\ prompt' = Some(build_prompt(state))
    /\ requests' = requests + 1
    /\ state' = complete(state)
    /\ events' = events \o << ErrorEvent(MsgReasoning),
                              Completed(FALSE, state.metadata.total_steps) >>
    /\ run_result' = Some("Err")
    /\ pc' = "returned"
    /\ UNCHANGED <<max_steps, tools, state0, step, stream, token_buffer, full_reasoning,
                   tool_req, tool_stream, acc, pending, invocations>>
    /\ UNCHANGED sseVars
    /\ UNCHANGED enumVars
    /\ UNCHANGED chanVars
    /\ UNCHANGED callerVars

\* agent.rs:103, 115-119: the SSE sequence yields an error item; the
\* filter_map of the reasoning stream logs it and yields nothing for it
RunStreamError ==
    /\ pc = "reasoning"
    /\ stream # <<>>
    /\ Head(stream) = SseError
    /\ stream' = Tail(stream)
    /\ UNCHANGED <<max_steps, tools, state0, prompt, state, pc, step, token_buffer, full_reasoning,
                   tool_req, tool_stream, acc, pending, events, requests, invocations, run_result>>
    /\ UNCHANGED sseVars
    /\ UNCHANGED enumVars
    /\ UNCHANGED chanVars
    /\ UNCHANGED callerVars

\* Mutant of BatchFull: a batch is released when it holds 3 tokens.
BatchFull_Three(buffer) == Len(buffer) >= 3

\* token_buffer.len() >= 5, agent.rs:961
BatchFull(buffer) == Len(buffer) >= 5

\* agent.rs:956-966: one token arrives
RunToken ==
    /\ pc = "reasoning"
    /\ stream # <<>>
    /\ Head(stream) # SseError
    /\ stream' = Tail(stream)
    /\ full_reasoning' = full_reasoning \o Head(stream)
    /\ IF BatchFull(Append(token_buffer, Head(stream)))
       THEN /\ events' = events \o TokenEvents(Append(token_buffer, Head(stream)))
            /\ token_buffer' = <<>>
       ELSE /\ token_buffer' = Append(token_buffer, Head(stream))
            /\ UNCHANGED events
    /\ UNCHANGED <<max_steps, tools, state0, prompt, state, pc, step, tool_req, tool_stream, acc, pending,
                   requests, invocations, run_result>>
    /\ UNCHANGED sseVars
    /\ UNCHANGED enumVars
    /\ UNCHANGED chanVars
    /\ UNCHANGED callerVars

\* Mutant of EndIteration: the Metadata event is sent before the events of
\* the tool call's outcome.
EndIteration_MetadataFirst(ev, st) ==
    /\ events' = Append(events, Metadata(st.metadata)) \o SubSeq(ev, Len(events) + 1, Len(ev))
    /\ state' = st
    /\ step' = step + 1
    /\ pc' = "loop"
    /\ full_reasoning' = <<>>
    /\ tool_req' = None
    /\ tool_stream' = <<>>
    /\ acc' = <<>>
    /\ pending' = None

\* The end of an iteration: the Metadata event (agent.rs:1057-1058) and the
\* next value of the loop variable; the iteration's locals are dropped.
EndIteration(ev, st) ==
    /\ events' = Append(ev, Metadata(st.metadata))
    /\ state' = st
    /\ step' = step + 1
    /\ pc' = "loop"
    /\ full_reasoning' = <<>>
    /\ tool_req' = None
    /\ tool_stream' = <<>>
    /\ acc' = <<>>
    /\ pending' = None

\* agent.rs:1019-1035: what the run does with the result of
\* call_tool_with_timeout
ToolReturnOk(ev, result) == EndIteration(ev, add_tool_call(state, result))
\* Mutant of ToolReturnErr: the error is reported but no ToolCallResult is
\* recorded for the call.
ToolReturnErr_NotRecorded(ev, message) ==
    EndIteration(Append(ev, ErrorEvent(message)), state)
ToolReturnErr(ev, message) ==
    EndIteration(Append(ev, ErrorEvent(message)),
                 add_tool_call(state, ToolErr(tool_req[1].name, tool_req[1].args, message)))

\* Mutant of BlankReasoning: only the empty text is skipped.
BlankReasoning_EmptyOnly(text) == text = <<>>

\* full_reasoning.trim().is_empty(), agent.rs:973
BlankReasoning(text) == Trim(text) = <<>>

\* agent.rs:968-1018 and the first poll of call_tool (agent.rs:360-378, 413):
\* the token stream has ended
RunStreamEnd ==
    LET ev1 == events \o TokenEvents(token_buffer)
        ev2 == Append(ev1, ReasoningStepDone(full_reasoning))
        st2 == add_step(state, full_reasoning)
        fa  == IF Contains(to_lowercase(full_reasoning), MARKER)
               THEN extract_final_answer(full_reasoning) ELSE [tag |-> "None"]
        tc  == parse_tool_call(full_reasoning)
    IN
    /\ pc = "reasoning"
    /\ stream = <<>>
    /\ token_buffer' = <<>>
    /\ UNCHANGED <<max_steps, tools, state0, prompt, stream, requests>>
    /\ UNCHANGED sseVars
    /\ UNCHANGED enumVars
    /\ UNCHANGED chanVars
    /\ UNCHANGED callerVars
    /\ IF BlankReasoning(full_reasoning) THEN
            \* continue: no Metadata event
            /\ events' = ev1
            /\ step' = step + 1
            /\ pc' = "loop"
            /\ full_reasoning' = <<>>
            /\ UNCHANGED <<state, tool_req, tool_stream, acc, pending, invocations, run_result>>
       ELSE IF fa.tag = "Panic" \/ (fa.tag = "None" /\ tc.tag = "Panic") THEN
            /\ events' = ev2
            /\ state' = st2
            /\ pc' = "panicked"
            /\ UNCHANGED <<step, full_reasoning, tool_req, tool_stream, acc, pending,
                           invocations, run_result>>
       ELSE IF fa.tag = "Some" THEN
            /\ events' = ev2 \o << FinalAnswer(fa.val), Completed(TRUE, st2.metadata.total_steps) >>
            /\ state' = complete(st2)
            /\ run_result' = Some("Ok")
            /\ pc' = "returned"
            /\ UNCHANGED <<step, full_reasoning, tool_req, tool_stream, acc, pending, invocations>>
       ELSE IF tc.tag = "None" THEN
            /\ EndIteration(ev2, st2)
            /\ UNCHANGED <<invocations, run_result>>
       ELSE
            /\ events' = Append(ev2, ToolCallEvent(tc.name, tc.args))
            /\ state' = st2
            /\ tool_req' = Some([name |-> tc.name, args |-> tc.args])
            /\ IF tc.name \notin DOMAIN tools THEN
                    /\ pc' = "unknown_send"
                    /\ UNCHANGED invocations
               ELSE IF tools[tc.name].supports_stream THEN
                    /\ pc' = "call_stream"
                    /\ invocations' = Append(invocations, Invocation(tc.name, "call_stream", tc.args))
               ELSE
                    /\ pc' = "call"
                    /\ invocations' = Append(invocations, Invocation(tc.name, "call", tc.args))
            /\ UNCHANGED <<step, full_reasoning, tool_stream, acc, pending, run_result>>

ToolFrame == UNCHANGED <<max_steps, tools, state0, prompt, stream, token_buffer, requests, run_result>>
             /\ UNCHANGED sseVars
             /\ UNCHANGED enumVars
             /\ UNCHANGED chanVars
             /\ UNCHANGED callerVars

\* Mutant of CallToolUnknown: the unknown-tool error is propagated out of
\* the run instead of being recorded.
CallToolUnknown_Aborts ==
    /\ pc = "unknown_send"
    /\ events' = events \o << ErrorEvent(MsgUnknown(tool_req[1].name)),
                              ErrorEvent(MsgUnknown(tool_req[1].name)) >>
    /\ run_result' = Some("Err")
    /\ pc' = "returned"
    /\ UNCHANGED <<max_steps, tools, state0, prompt, state, step, stream, token_buffer,
                   full_reasoning, tool_req, tool_stream, acc, pending, requests, invocations>>
    /\ UNCHANGED sseVars
    /\ UNCHANGED enumVars
    /\ UNCHANGED chanVars
    /\ UNCHANGED callerVars

\* agent.rs:365-373: the Error event of an unknown tool has been sent
CallToolUnknown ==
    /\ pc = "unknown_send"
    /\ ToolReturnErr(Append(events, ErrorEvent(MsgUnknown(tool_req[1].name))),
                     MsgUnknown(tool_req[1].name))
    /\ UNCHANGED invocations
    /\ ToolFrame

\* agent.rs:378-380: call_stream returns a stream
CallToolStreamOpened(chunks) ==
    /\ pc = "call_stream"
    /\ tool_stream' = chunks
    /\ acc' = <<>>
    /\ pc' = "stream_next"
    /\ UNCHANGED <<state, step, full_reasoning, tool_req, pending, events, invocations>>
    /\ ToolFrame

\* agent.rs:382: the tool's stream yields a chunk
CallToolChunk ==
    /\ pc = "stream_next"
    /\ tool_stream # <<>>
    /\ pending' = Some(Head(tool_stream))
    /\ tool_stream' = Tail(tool_stream)
    /\ pc' = "stream_send"
    /\ UNCHANGED <<state, step, full_reasoning, tool_req, acc, events, invocations>>
    /\ ToolFrame

\* Mutant of CallToolChunkSent: the chunk is put in front of acc.
CallToolChunkSent_Prepends ==
    /\ pc = "stream_send"
    /\ events' = Append(events, ToolResult(tool_req[1].name, pending[1], TRUE))
    /\ acc' = pending[1] \o acc
    /\ pending' = None
    /\ pc' = "stream_next"
    /\ UNCHANGED <<state, step, full_reasoning, tool_req, tool_stream, invocations>>
    /\ ToolFrame

\* agent.rs:383-391: the chunk's event has been sent
CallToolChunkSent ==
    /\ pc = "stream_send"
    /\ events' = Append(events, ToolResult(tool_req[1].name, pending[1], TRUE))
    /\ acc' = acc \o pending[1]
    /\ pending' = None
    /\ pc' = "stream_next"
    /\ UNCHANGED <<state, step, full_reasoning, tool_req, tool_stream, invocations>>
    /\ ToolFrame

\* agent.rs:394-400: the tool's stream has ended
CallToolStreamDone ==
    /\ pc = "stream_next"
    /\ tool_stream = <<>>
    /\ ToolReturnOk(events, Success(tool_req[1].name, tool_req[1].args, acc))
    /\ UNCHANGED invocations
    /\ ToolFrame

\* agent.rs:402-405: call_stream fails
CallToolStreamFailed ==
    /\ pc = "call_stream"
    /\ pc' = "stream_err_send"
    /\ UNCHANGED <<state, step, full_reasoning, tool_req, tool_stream, acc, pending,
                   events, invocations>>
    /\ ToolFrame

\* Mutant of CallToolFallback: the streaming error is returned, the
\* synchronous call is not made.
CallToolFallback_GivesUp ==
    /\ pc = "stream_err_send"
    /\ ToolReturnErr(Append(events, ErrorEvent(MsgStreamFailed)), MsgStreamFailed)
    /\ UNCHANGED invocations
    /\ ToolFrame

\* agent.rs:405-413: the Error event has been sent, the synchronous call starts
CallToolFallback ==
    /\ pc = "stream_err_send"
    /\ events' = Append(events, ErrorEvent(MsgStreamFailed))
    /\ invocations' = Append(invocations,
                             Invocation(tool_req[1].name, "call", tool_req[1].args))
    /\ pc' = "call"
    /\ UNCHANGED <<state, step, full_reasoning, tool_req, tool_stream, acc, pending>>
    /\ ToolFrame

\* agent.rs:413-415: the synchronous call returns a value
CallToolSyncOk(result) ==
    /\ pc = "call"
    /\ pending' = Some(result)
    /\ pc' = "result_send"
    /\ UNCHANGED <<state, step, full_reasoning, tool_req, tool_stream, acc, events, invocations>>
    /\ ToolFrame

\* agent.rs:416-424: the ToolResult event has been sent
CallToolResultSent ==
    /\ pc = "result_send"
    /\ ToolReturnOk(Append(events, ToolResult(tool_req[1].name, pending[1], FALSE)),
                    Success(tool_req[1].name, tool_req[1].args, pending[1]))
    /\ UNCHANGED invocations
    /\ ToolFrame

\* agent.rs:426-429: the synchronous call fails
CallToolSyncErr ==
    /\ pc = "call"
    /\ ToolReturnErr(events, MsgToolFailed)
    /\ UNCHANGED invocations
    /\ ToolFrame

\* The points at which call_tool is suspended
ToolAwait == {"unknown_send", "call_stream", "stream_next", "stream_send",
              "stream_err_send", "call", "result_send"}

\* Mutant of CallToolTimeout: the timeout is reported but no ToolCallResult
\* is recorded.
CallToolTimeout_NotRecorded ==
    /\ pc \in ToolAwait
    /\ EndIteration(Append(events, ErrorEvent(MsgTimeout)), state)
    /\ UNCHANGED invocations
    /\ ToolFrame

\* agent.rs:331-345: the timeout expires while call_tool is suspended; the
\* call is dropped
CallToolTimeout ==
    /\ pc \in ToolAwait
    /\ ToolReturnErr(events, MsgTimeout)
    /\ UNCHANGED invocations
    /\ ToolFrame

\* agent.rs:1061-1076: the loop has run max_steps iterations
RunMaxSteps ==
    /\ pc = "loop"
    /\ ~InLoop
    /\ state' = complete(state)
    /\ events' = events \o << ErrorEvent(MsgMaxSteps(max_steps)),
                              Completed(FALSE, state.metadata.total_steps) >>
    /\ run_result' = Some("Ok")
    /\ pc' = "returned"
    /\ UNCHANGED <<max_steps, tools, state0, prompt, step, stream, token_buffer, full_reasoning,
                   tool_req, tool_stream, acc, pending, requests, invocations>>
    /\ UNCHANGED sseVars
    /\ UNCHANGED enumVars
    /\ UNCHANGED chanVars
    /\ UNCHANGED callerVars

\* agent.rs:78-82: the spawned task reports the error run_agent_stream returned
TaskEnd ==
    /\ pc = "returned"
    /\ events' = IF run_result = Some("Err")
                 THEN Append(events, ErrorEvent(MsgReasoning)) ELSE events
    /\ pc' = "done"
    /\ UNCHANGED <<max_steps, tools, state0, prompt, state, step, stream, token_buffer, full_reasoning,
                   tool_req, tool_stream, acc, pending, requests, invocations, run_result>>
    /\ UNCHANGED sseVars
    /\ UNCHANGED enumVars
    /\ UNCHANGED chanVars
    /\ UNCHANGED callerVars

Next ==
    \/ RunStart
    \/ RunAlreadyComplete
    \/ \E text \in ReasoningTexts : RunRequestReasoning(text)
    \/ RunReasoningFailed
    \/ RunStreamError
    \/ RunToken
    \/ RunStreamEnd
    \/ CallToolUnknown
    \/ \E chunks \in ToolStreams : CallToolStreamOpened(chunks)
    \/ CallToolChunk
    \/ CallToolChunkSent
    \/ CallToolStreamDone
    \/ CallToolStreamFailed
    \/ CallToolFallback
    \/ \E result \in ToolValues : CallToolSyncOk(result)
    \/ CallToolResultSent
    \/ CallToolSyncErr
    \/ CallToolTimeout
    \/ RunMaxSteps
    \/ TaskEnd

Spec == Init /\ [][Next]_vars

----------------------------------------------------------------------------
(* The event channel of a run, agent.rs:73-85. Every event of the run is   *)
(* handed to tx.send(..).await; events is the log of these sends, and the  *)
(* first `sent` of them have returned. The task takes its next step only   *)
(* when every send it has made has returned.                               *)

\* mpsc::channel(32), agent.rs:74
Capacity == 32

SendsReturned == sent = Len(events)

\* a send can return at once: the buffer has room, or the receiver is gone
\* and the send returns an error
CanSend == rx = "dropped" \/ Len(chan) < Capacity

\* The sends inside call_tool (agent.rs:370, 383-389, 405, 416-422): the
\* event enters the log when its send returns
SendPoints == {"unknown_send", "stream_send", "stream_err_send", "result_send"}

\* Mutant of ChanSend: the buffer takes an event also when it is full.
ChanSend_Unbounded ==
    /\ sent < Len(events)
    /\ chan' = IF rx = "dropped" THEN chan ELSE Append(chan, events[sent + 1])
    /\ sent' = sent + 1
    /\ UNCHANGED <<rx, delivered>>
    /\ UNCHANGED <<max_steps, tools, state, state0, pc, step, stream, token_buffer,
                   full_reasoning, tool_req, tool_stream, acc, pending, events, requests,
                   invocations, run_result, prompt>>
    /\ UNCHANGED sseVars
    /\ UNCHANGED enumVars
    /\ UNCHANGED callerVars

\* `let _ = tx.send(event).await` returns (agent.rs:924 and every other
\* send): the event is buffered when the buffer has room; with the receiver
\* gone the send returns an error, which is ignored.
ChanSend ==
    /\ sent < Len(events)
    /\ CanSend
    /\ chan' = IF rx = "dropped" THEN chan ELSE Append(chan, events[sent + 1])
    /\ sent' = sent + 1
    /\ UNCHANGED <<rx, delivered>>
    /\ UNCHANGED <<max_steps, tools, state, state0, pc, step, stream, token_buffer,
                   full_reasoning, tool_req, tool_stream, acc, pending, events, requests,
                   invocations, run_result, prompt>>
    /\ UNCHANGED sseVars
    /\ UNCHANGED enumVars
    /\ UNCHANGED callerVars

RunFrame ==
    /\ UNCHANGED <<max_steps, tools, state, state0, pc, step, stream, token_buffer,
                   full_reasoning, tool_req, tool_stream, acc, pending, events, requests,
                   invocations, run_result, prompt>>
    /\ UNCHANGED sseVars
    /\ UNCHANGED enumVars
    /\ UNCHANGED callerVars

\* The consumer polls the ReceiverStream (agent.rs:84) and takes the oldest
\* buffered event
ConsumerRecv ==
    /\ rx = "reading"
    /\ chan # <<>>
    /\ delivered' = Append(delivered, Head(chan))
    /\ chan' = Tail(chan)
    /\ UNCHANGED <<rx, sent>>
    /\ RunFrame

\* The consumer keeps the stream and polls it no more
ConsumerStop ==
    /\ rx = "reading"
    /\ rx' = "stopped"
    /\ UNCHANGED <<chan, sent, delivered>>
    /\ RunFrame

\* The consumer drops the stream: the channel is closed and what it buffers
\* is dropped
ConsumerDrop ==
    /\ rx \in {"reading", "stopped"}
    /\ rx' = "dropped"
    /\ chan' = <<>>
    /\ UNCHANGED <<sent, delivered>>
    /\ RunFrame

\* Reasoning texts and tool streams of the runs whose channel is observed:
\* one text for each way an iteration can go, and a long thought
ChanTexts == {R_LONG, R_S, R_U, R_FINAL, R_BLANK, R_T, R_BRACES}
ChanStreams == { << <<"x">>, <<"y", "z">> >> }

\* Steps of the spawned task that wait for no send of call_tool
RunStep ==
    \/ RunStart
    \/ RunAlreadyComplete
    \/ \E text \in ChanTexts : RunRequestReasoning(text)
    \/ RunReasoningFailed
    \/ RunToken
    \/ RunStreamEnd
    \/ \E chunks \in ChanStreams : CallToolStreamOpened(chunks)
    \/ CallToolChunk
    \/ CallToolStreamDone
    \/ CallToolStreamFailed
    \/ \E result \in ToolValues : CallToolSyncOk(result)
    \/ CallToolSyncErr
    \/ RunMaxSteps
    \/ TaskEnd

\* Steps in which a send of call_tool returns
SendStep ==
    \/ CallToolUnknown
    \/ CallToolChunkSent
    \/ CallToolFallback
    \/ CallToolResultSent

\* A step of the spawned task: its sends so far have returned, and a send
\* inside call_tool returns only when the channel lets it. The timeout of
\* call_tool_with_timeout also cancels a send that is suspended.
TaskStep ==
    /\ SendsReturned
    /\ \/ RunStep
       \/ CanSend /\ SendStep
       \/ CallToolTimeout

ChanNext ==
    \/ TaskStep
    \/ ChanSend
    \/ ConsumerRecv
    \/ ConsumerStop
    \/ ConsumerDrop

\* The runs whose channel is observed start from a fresh state or from a
\* state that already holds a final answer.
ChanInit == Init /\ state \in {NewState, add_step(NewState, Concat(R_FINAL))}

ChanSpec == ChanInit /\ [][ChanNext]_vars

----------------------------------------------------------------------------
(* The caller's Agent and the runs started on it, agent.rs:29-85. Every    *)
(* react_stream call clones the agent (its tools map and its options),      *)
(* moves the caller's AgentState into the task it spawns and creates the    *)
(* channel of that run; the runtime interleaves the spawned tasks at their  *)
(* await points. Two runs are followed: the fields of the one whose task is *)
(* scheduled are the run variables, those of the other one are in `other`.  *)

\* max_steps of the agent on which two runs are started
ConcurrentSteps == MaxSteps - 1

\* Tools the caller may register: a streaming tool named s, which replaces
\* the one registered at first, and a tool named u
NewTools == { [name |-> <<"s">>, supports_stream |-> TRUE],
              [name |-> <<"u">>, supports_stream |-> FALSE] }

\* The tools the caller has registered before the first run: s, without a
\* streaming path
FirstRegistry == <<"s">> :> [supports_stream |-> FALSE]

\* HashMap::insert, agent.rs:50
insert(map, name, tool) == [n \in DOMAIN map \cup {name} |-> IF n = name THEN tool ELSE map[n]]

\* Mutant of register_tool: the map is shared with the task of the run.
register_tool_Shared(tool) ==
    /\ registry' = insert(registry, tool.name, [supports_stream |-> tool.supports_stream])
    /\ tools' = IF pc = "idle" THEN tools ELSE registry'
    /\ UNCHANGED <<max_steps, state, state0, pc, step, stream, token_buffer, full_reasoning,
                   tool_req, tool_stream, acc, pending, events, requests, invocations,
                   run_result, prompt, task, other>>
    /\ UNCHANGED sseVars
    /\ UNCHANGED enumVars
    /\ UNCHANGED chanVars

\* Agent::register_tool, agent.rs:42-51
register_tool(tool) ==
    /\ registry' = insert(registry, tool.name, [supports_stream |-> tool.supports_stream])
    /\ UNCHANGED <<max_steps, tools, state, state0, pc, step, stream, token_buffer, full_reasoning,
                   tool_req, tool_stream, acc, pending, events, requests, invocations,
                   run_result, prompt, task, other>>
    /\ UNCHANGED sseVars
    /\ UNCHANGED enumVars
    /\ UNCHANGED chanVars

\* Agent::react_stream, agent.rs:73-85: the task gets a clone of the agent
\* and the caller's state
react_stream(st) ==
    /\ pc = "idle"
    /\ tools' = registry
    /\ max_steps' = ConcurrentSteps
    /\ state' = st
    /\ state0' = st
    /\ pc' = "spawned"
    /\ UNCHANGED <<step, stream, token_buffer, full_reasoning, tool_req, tool_stream, acc,
                   pending, events, requests, invocations, run_result, prompt>>
    /\ UNCHANGED sseVars
    /\ UNCHANGED enumVars
    /\ UNCHANGED chanVars
    /\ UNCHANGED callerVars

\* The fields of the run whose task is scheduled
RunFields ==
    [max_steps |-> max_steps, tools |-> tools, state |-> state, state0 |-> state0, pc |-> pc,
     step |-> step, stream |-> stream, token_buffer |-> token_buffer,
     full_reasoning |-> full_reasoning, tool_req |-> tool_req, tool_stream |-> tool_stream,
     acc |-> acc, pending |-> pending, events |-> events, requests |-> requests,
     invocations |-> invocations, run_result |-> run_result, prompt |-> prompt,
     chan |-> chan, rx |-> rx, sent |-> sent, delivered |-> delivered]

\* A run that react_stream has not started yet
IdleRun ==
    [max_steps |-> 0, tools |-> <<>>, state |-> NewState, state0 |-> NewState, pc |-> "idle",
     step |-> 0, stream |-> <<>>, token_buffer |-> <<>>, full_reasoning |-> <<>>,
     tool_req |-> None, tool_stream |-> <<>>, acc |-> <<>>, pending |-> None, events |-> <<>>,
     requests |-> 0, invocations |-> <<>>, run_result |-> None, prompt |-> None,
     chan |-> <<>>, rx |-> "reading", sent |-> 0, delivered |-> <<>>]

\* Mutant of SwitchTask: the two runs send on one channel.
SwitchTask_OneChannel ==
    /\ other # None
    /\ other' = Some(RunFields)
    /\ task' = 3 - task
    /\ max_steps' = other[1].max_steps
    /\ tools' = other[1].tools
    /\ state' = other[1].state
    /\ state0' = other[1].state0
    /\ pc' = other[1].pc
    /\ step' = other[1].step
    /\ stream' = other[1].stream
    /\ token_buffer' = other[1].token_buffer
    /\ full_reasoning' = other[1].full_reasoning
    /\ tool_req' = other[1].tool_req
    /\ tool_stream' = other[1].tool_stream
    /\ acc' = other[1].acc
    /\ pending' = other[1].pending
    /\ events' = events
    /\ requests' = other[1].requests
    /\ invocations' = other[1].invocations
    /\ run_result' = other[1].run_result
    /\ prompt' = other[1].prompt
    /\ chan' = other[1].chan
    /\ rx' = other[1].rx
    /\ sent' = other[1].sent
    /\ delivered' = other[1].delivered
    /\ UNCHANGED registry
    /\ UNCHANGED sseVars
    /\ UNCHANGED enumVars

\* tokio::spawn, agent.rs:78: the runtime suspends the task of one run at an
\* await point and resumes the task of the other run
SwitchTask ==
    /\ other # None
    /\ other' = Some(RunFields)
    /\ task' = 3 - task
    /\ max_steps' = other[1].max_steps
    /\ tools' = other[1].tools
    /\ state' = other[1].state
    /\ state0' = other[1].state0
    /\ pc' = other[1].pc
    /\ step' = other[1].step
    /\ stream' = other[1].stream
    /\ token_buffer' = other[1].token_buffer
    /\ full_reasoning' = other[1].full_reasoning
    /\ tool_req' = other[1].tool_req
    /\ tool_stream' = other[1].tool_stream
    /\ acc' = other[1].acc
    /\ pending' = other[1].pending
    /\ events' = other[1].events
    /\ requests' = other[1].requests
    /\ invocations' = other[1].invocations
    /\ run_result' = other[1].run_result
    /\ prompt' = other[1].prompt
    /\ chan' = other[1].chan
    /\ rx' = other[1].rx
    /\ sent' = other[1].sent
    /\ delivered' = other[1].delivered
    /\ UNCHANGED registry
    /\ UNCHANGED sseVars
    /\ UNCHANGED enumVars

\* Reasoning texts and tool streams of the concurrent runs: a call of s and
\* a call of u
ConcurrentTexts == {R_S, R_U}

\* Steps of the task that is scheduled
ConcurrentRunStep ==
    \/ RunStart
    \/ \E text \in ConcurrentTexts : RunRequestReasoning(text)
    \/ RunToken
    \/ RunStreamEnd
    \/ CallToolUnknown
    \/ \E chunks \in ChanStreams : CallToolStreamOpened(chunks)
    \/ CallToolChunk
    \/ CallToolChunkSent
    \/ CallToolStreamDone
    \/ \E result \in ToolValues : CallToolSyncOk(result)
    \/ CallToolResultSent
    \/ CallToolTimeout
    \/ RunMaxSteps
    \/ TaskEnd

ConcurrentNext ==
    \/ \E tool \in NewTools : register_tool(tool)
    \/ react_stream(NewState)
    \/ SwitchTask
    \/ ConcurrentRunStep

\* The caller has registered the first tools and has started no run.
ConcurrentInit ==
    /\ SseUnused
    /\ EnumUnused
    /\ max_steps = 0
    /\ tools = <<>>
    /\ state = NewState
    /\ state0 = NewState
    /\ pc = "idle"
    /\ step = 0
    /\ stream = <<>>
    /\ token_buffer = <<>>
    /\ full_reasoning = <<>>
    /\ tool_req = None
    /\ tool_stream = <<>>
    /\ acc = <<>>
    /\ pending = None
    /\ events = <<>>
    /\ requests = 0
    /\ invocations = <<>>
    /\ run_result = None
    /\ prompt = None
    /\ ChanEmpty
    /\ registry = FirstRegistry
    /\ task = 1
    /\ other = Some(IdleRun)

ConcurrentSpec == ConcurrentInit /\ [][ConcurrentNext]_vars

----------------------------------------------------------------------------
(* Enums generated by impl_serializable_deserializable_enum!,              *)
(* util.rs:145-239: as_str is a match on the variant, Serialize writes     *)
(* as_str as a string, Deserialize reads a string and matches it against    *)
(* the declared strings, arm by arm in the order of the declaration.        *)

Variant(var, val) == [var |-> var, val |-> val]

\* util.rs:318-325, api/type.rs:12-19, api/batch.rs:54-62,
\* api/response/type.rs:370-380
TestStatus2 == << Variant("First", "first"), Variant("Second", "second"),
                  Variant("Third", "third") >>
Role == << Variant("User", "user"), Variant("Assistant", "assistant"),
           Variant("System", "system"), Variant("Developer", "developer") >>
Endpoint == << Variant("Response", "/v1/response"),
               Variant("ChatCompletion", "/v1/chat/completions"),
               Variant("Embeddings", "/v1/embeddings"),
               Variant("Completions", "/v1/completions") >>
HostedTool == << Variant("FileSearch", "file_search"),
                 Variant("WebSearchPreview", "web_search_preview"),
                 Variant("WebSearchPreview20250311", "web_search_preview_2025_03_11"),
                 Variant("ComputerUsePreview", "computer_use_preview"),
                 Variant("CodeInterpreter", "code_interpreter"),
                 Variant("Mcp", "mcp"),
                 Variant("ImageGeneration", "image_generation") >>

Enums == {TestStatus2, Role, Endpoint, HostedTool}

VariantsOf(d) == {d[i].var : i \in 1..Len(d)}
DeclaredBy(d) == {d[i].val : i \in 1..Len(d)}

\* Strings a document may hold where the enum is expected: the declared
\* ones of every enum, and strings that no enum declares
WireStrings ==
    UNION {DeclaredBy(d) : d \in Enums} \cup {"", "First", "user ", "/v1/completion", "MCP"}

\* as_str, util.rs:145-155
as_str(d, v) == d[CHOOSE i \in 1..Len(d) : d[i].var = v].val

\* Mutant of deserialize: a string that no arm matches gives the first variant.
deserialize_FirstVariant(d, s) ==
    LET arms == {i \in 1..Len(d) : d[i].val = s}
    IN IF arms = {} THEN [tag |-> "Ok", var |-> d[1].var]
       ELSE [tag |-> "Ok", var |-> d[Min(arms)].var]

\* Deserialize::deserialize, util.rs:170-188: the first arm whose string is s
deserialize(d, s) ==
    LET arms == {i \in 1..Len(d) : d[i].val = s}
    IN IF arms = {} THEN [tag |-> "Err", msg |-> <<"unknown variant", s>>]
       ELSE [tag |-> "Ok", var |-> d[Min(arms)].var]

EnumFrame ==
    /\ UNCHANGED decl
    /\ UNCHANGED sseVars
    /\ UNCHANGED agentVars

\* Serialize::serialize, util.rs:157-168
Serialize(v) ==
    /\ wire' = Some([var |-> v, str |-> as_str(decl, v)])
    /\ UNCHANGED parsed
    /\ EnumFrame

\* a document is deserialised into the enum
Deserialize(s) ==
    /\ parsed' = Some([input |-> s, result |-> deserialize(decl, s)])
    /\ UNCHANGED wire
    /\ EnumFrame

EnumNext ==
    \/ \E v \in VariantsOf(decl) : Serialize(v)
    \/ \E s \in WireStrings : Deserialize(s)

EnumInit ==
    /\ SseUnused
    /\ AgentIdle
    /\ decl \in Enums
    /\ wire = None
    /\ parsed = None

EnumSpec == EnumInit /\ [][EnumNext]_vars

----------------------------------------------------------------------------
(* The decoder with ApiEventHandler (api.rs:13-43): the results of the     *)
(* handlers are functions of the text they are given. JSON is read as      *)
(* serde_json reads it on the bodies of ApiLines: whitespace between       *)
(* tokens is insignificant, a missing field is an error. The event type T  *)
(* is an unsigned integer.                                                 *)

JsonWhitespace == {" ", "\n", "\t", "\r"}

\* The text without the whitespace that stands outside string literals: a
\* character is inside a literal when an odd number of quotes precedes it.
Compact(text) ==
    LET InString(k) == Cardinality({j \in 1..(k - 1) : text[j] = Q}) % 2 = 1
        marked == [k \in 1..Len(text) |->
                      IF text[k] \in JsonWhitespace /\ ~InString(k) THEN "" ELSE text[k]]
    IN  SelectSeq(marked, LAMBDA c : c # "")

E_OPEN  == <<"{", Q, "e", "r", "r", "o", "r", Q, ":", "{", Q, "t", "y", "p", "e", Q, ":", Q>>
E_MID   == <<Q, ",", Q, "m", "e", "s", "s", "a", "g", "e", Q, ":", Q>>
E_CLOSE == <<Q, "}", "}">>

EndsWith(s, p) == Len(s) >= Len(p) /\ SubSeq(s, Len(s) - Len(p) + 1, Len(s)) = p

\* serde_json::from_str::<ApiErrorWrapper>: Some(error) for an object
\* {"error":{"type":<string>,"message":<string>}}, else None
ParseApiErrorWrapper(content) ==
    LET body == StripPrefix(Compact(content), E_OPEN) IN
    IF body = None \/ ~Contains(body[1], E_MID) THEN None
    ELSE LET ty   == BeforeFirst(body[1], E_MID)
             rest == AfterFirst(body[1], E_MID)
         IN IF ~EndsWith(rest, E_CLOSE) THEN None
            ELSE LET msg == SubSeq(rest, 1, Len(rest) - Len(E_CLOSE)) IN
                 IF Contains(ty, <<Q>>) \/ Contains(msg, <<Q>>) THEN None
                 ELSE Some([type |-> ty, message |-> msg])

Digits == {"0", "1", "2", "3", "4", "5", "6", "7", "8", "9"}

\* ApiEventHandler::handle_data, api.rs:32-34, for T = u64
handle_data(payload) ==
    LET t == Trim(payload) IN
    IF t # <<>> /\ (\A k \in 1..Len(t) : t[k] \in Digits) /\ (Len(t) > 1 => t[1] # "0")
    THEN [tag |-> "Ok"] ELSE [tag |-> "Err", error |-> [kind |-> "Json"]]

\* Mutant of handle_unexpected: the default of the EventHandler trait.
handle_unexpected_Default(content) == [tag |-> "Ok"]

\* ApiEventHandler::handle_unexpected, api.rs:36-42
handle_unexpected(content) ==
    LET e == ParseApiErrorWrapper(content) IN
    IF e # None THEN [tag |-> "Err", error |-> [kind |-> "Api", error |-> e[1]]]
    ELSE [tag |-> "Err", error |-> [kind |-> "Any", text |-> content]]

ENVELOPE_HEAD == <<"{", Q, "e", "r", "r", "o", "r", Q, ":">>
ENVELOPE_BODY == <<"{", Q, "t", "y", "p", "e", Q, ":", Q, "t", Q, ",", " ",
                   Q, "m", "e", "s", "s", "a", "g", "e", Q, ":", Q, "m", Q, "}", "}">>

\* Lines of a response read with ApiEventHandler
ApiLines ==
    { <<>>,                              \* blank line
      P_DATA \o <<"1">>,                 \* data: 1
      P_DATA \o <<"a">>,                 \* data: a (not JSON)
      P_DATA \o DONE,                    \* data: [DONE]
      ENVELOPE_HEAD \o ENVELOPE_BODY,    \* {"error":{"type":"t", "message":"m"}}
      ENVELOPE_HEAD,                     \* the same body over two lines
      ENVELOPE_BODY,
      <<"{", "}">> }                     \* a JSON body that is no envelope

\* An error item that carries the handler's error
ApiErrItem(src, error) == [tag |-> "Err", src |-> src, error |-> error]

\* poll_next on a line, http.rs:410-474, the handlers being ApiEventHandler's
\* (handle_event is the trait's default, http.rs:93-95)
ApiPollNextLine(raw) ==
    PollNextLine(raw, (Trim(raw) = <<>> /\ RecordOpen(data)) => handle_data(data).tag = "Ok")

\* poll_next at the end of the input, http.rs:477-490
ApiPollNextEnd ==
    /\ CanPoll
    /\ framer' = "eof"
    /\ IF unexpected # <<>> THEN
            LET res == handle_unexpected(unexpected) IN
            /\ unexpected' = <<>>
            /\ calls' = Append(calls, Call("handle_unexpected", unexpected, res.tag = "Ok"))
            /\ polls' = Append(polls, IF res.tag = "Ok" THEN End
                                      ELSE ApiErrItem("handle_unexpected", res.error))
       ELSE
            /\ polls' = Append(polls, End)
            /\ UNCHANGED <<unexpected, calls>>
    /\ UNCHANGED <<data, last_event, drop_event, lineLog>>
    /\ UNCHANGED agentVars
    /\ UNCHANGED enumVars

ApiNext ==
    \/ \E raw \in ApiLines : ApiPollNextLine(raw)
    \/ PollNextFramerErr
    \/ ApiPollNextEnd

ApiSpec == SseInit /\ [][ApiNext]_vars

----------------------------------------------------------------------------
(* Reference reading of a line log, used to state the decoder's contract   *)

IsDataLine(raw)  == StartsWith(raw, P_DATA)
IsDoneLine(raw)  == StripPrefix(Trim(raw), P_DATA) = Some(DONE)
WellFormedLine(raw) ==
    \/ raw = <<>>
    \/ IsDataLine(raw) /\ ~IsDoneLine(raw)
    \/ StartsWith(raw, P_EVENT)
    \/ StartsWith(raw, P_ID)
    \/ StartsWith(raw, P_RETRY)
    \/ StartsWith(raw, <<":">>)

\* The chunk of a data: <chunk> line is everything after the prefix.
ChunkOf(raw) == SubSeq(raw, Len(P_DATA) + 1, Len(raw))

\* Payloads of the records of lines: one per blank-line-closed record that
\* has at least one data line, its chunks joined by "\n".
\* cur is None, or Some(payload so far) once the record has a data line.
RECURSIVE RecordPayloads(_, _)
RecordPayloads(lines, cur) ==
    IF lines = <<>> THEN <<>>
    ELSE LET l == Head(lines) IN
         IF l = <<>> THEN cur \o RecordPayloads(Tail(lines), None)
         ELSE IF IsDataLine(l) THEN
              RecordPayloads(Tail(lines),
                  IF cur = None THEN Some(ChunkOf(l))
                  ELSE Some(cur[1] \o <<"\n">> \o ChunkOf(l)))
         ELSE RecordPayloads(Tail(lines), cur)

SelectCalls(fn) == SelectSeq(calls, LAMBDA c : c.fn = fn)
RECURSIVE ArgsOf(_)
ArgsOf(cs) == IF cs = <<>> THEN <<>> ELSE <<Head(cs).arg>> \o ArgsOf(Tail(cs))

IsProtocolLine(line) ==
    \/ line = <<>>
    \/ StartsWith(line, P_DATA) \/ StartsWith(line, P_EVENT)
    \/ StartsWith(line, P_ID) \/ StartsWith(line, P_RETRY)
    \/ StartsWith(line, <<":">>)

\* The non-protocol lines of a log, trimmed and joined by "\n".
RECURSIVE UnexpectedContent(_)
UnexpectedContent(lines) ==
    IF lines = <<>> THEN <<>>
    ELSE LET rest == UnexpectedContent(SubSeq(lines, 1, Len(lines) - 1))
             line == Trim(lines[Len(lines)])
         IN IF IsProtocolLine(line) THEN rest ELSE PushJoined(rest, line)

DoneRead == \E k \in 1..Len(lineLog) : IsDoneLine(lineLog[k])

----------------------------------------------------------------------------
(* C2: for every sequence of well-formed SSE lines the payloads handed to  *)
(* handle_data are, in order, the "\n"-joined data chunks of the records   *)
(* closed so far that have at least one data line, and exactly one item    *)
(* is emitted per such record.                                             *)
C2_OneItemPerRecord ==
    (/\ \A k \in 1..Len(lineLog) : WellFormedLine(lineLog[k])
     /\ framer # "errored")
    => /\ ArgsOf(SelectCalls("handle_data")) = RecordPayloads(lineLog, None)
       /\ Len(SelectSeq(polls, LAMBDA p : p.tag = "Ok" \/ (p.tag = "Err" /\ p.src = "handle_data")))
            = Len(RecordPayloads(lineLog, None))

(* C3: once a data: [DONE] line has been read, no step of the decoder    *)
(* invokes a handler or yields an item produced from a line or a buffer:   *)
(* every later poll result is the end of the sequence.                     *)
C3_NothingAfterDone ==
    [][DoneRead => /\ calls' = calls
                   /\ \/ polls' = polls
                      \/ polls' = Append(polls, End)
                      \/ polls' = Append(polls, ErrItem("framer"))]_vars

(* C9: every error item is the last item of the sequence: no Ok item and   *)
(* no further error item follows an error item.                            *)
C9_ErrorItemIsLast ==
    \A i \in 1..Len(polls) : \A j \in 1..Len(polls) :
        (i < j /\ polls[i].tag = "Err") => polls[j].tag = "End"

(* C10: when the line sequence ends with a non-empty unexpected buffer,    *)
(* handle_unexpected is invoked exactly once, with the accumulated         *)
(* content; its error is emitted as one item after which the sequence      *)
(* ends, and without an error the sequence ends with no item. Before the   *)
(* end of the input handle_unexpected is never invoked.                    *)
HuCalls == SelectCalls("handle_unexpected")
HuItems == {k \in 1..Len(polls) : polls[k] = ErrItem("handle_unexpected")}
C10_UnexpectedFlushedOnce ==
    /\ Len(HuCalls) <= 1
    /\ framer # "eof" => HuCalls = <<>>
    /\ (framer = "eof" /\ UnexpectedContent(lineLog) # <<>>) =>
          /\ Len(HuCalls) = 1
          /\ HuCalls[1].arg = UnexpectedContent(lineLog)
          /\ unexpected = <<>>
          /\ IF HuCalls[1].ok
                THEN HuItems = {} /\ polls[Len(polls)] = End
                ELSE /\ Cardinality(HuItems) = 1
                     /\ \A k \in HuItems : \A j \in (k + 1)..Len(polls) : polls[j] = End
    /\ (framer = "eof" /\ UnexpectedContent(lineLog) = <<>>) =>
          HuCalls = <<>> /\ HuItems = {} /\ polls[Len(polls)] = End

C10_Witness ==
    /\ framer = "eof"
    /\ ~DoneRead
    /\ Len(lineLog) >= 2
    /\ Len(HuCalls) = 1 /\ ~HuCalls[1].ok
    /\ HuCalls[1].arg = <<"{", "}", "\n", "d", "a", "t", "a", ":">>
    /\ Len(polls) >= 2
    /\ polls[Len(polls) - 1] = ErrItem("handle_unexpected")
    /\ polls[Len(polls)] = End

----------------------------------------------------------------------------
(* Observations on a run *)

Last(q) == q[Len(q)]
EventsOfType(t) == SelectSeq(events, LAMBDA e : e.type = t)
Ended == pc \in {"returned", "done"}
\* the run left the loop at its end (agent.rs:1061-1076)
Exhausted == \E k \in 1..Len(events) : events[k] = ErrorEvent(MsgMaxSteps(max_steps))
Fresh == state0 = NewState

\* Reference reading of "the text contains the marker, matched
\* case-insensitively, followed by non-whitespace text": character positions
\* of the original text whose lowercase spells the marker.
MarkerAt(text) ==
    {k \in 1..Len(text) : \E n \in 1..(Len(text) - k + 1) :
        to_lowercase(SubSeq(text, k, k + n - 1)) = MARKER}
EndOfMarker(text, k) ==
    k + Min({n \in 1..(Len(text) - k + 1) : to_lowercase(SubSeq(text, k, k + n - 1)) = MARKER})
AnswerOf(text) == Trim(SubSeq(text, EndOfMarker(text, Min(MarkerAt(text))), Len(text)))
HasFinalAnswer(text) == MarkerAt(text) # {} /\ AnswerOf(text) # <<>>

(* C1: the number of reasoning requests issued never exceeds max_steps,    *)
(* iterations with an empty reasoning text included.                       *)
C1_RequestsBounded == requests <= max_steps

C1_Witness ==
    /\ pc = "done" /\ Fresh
    /\ max_steps = MaxSteps /\ requests = max_steps
    /\ Len(state.reasoning_steps) < requests

C5_FinalAnswerEmitted ==
    \A k \in 1..Len(events) :
        (events[k].type = "reasoningStepDone" /\ HasFinalAnswer(events[k].content)) =>
            /\ Len(events) >= k + 2
            /\ events[k + 1] = FinalAnswer(AnswerOf(events[k].content))
            /\ events[k + 2].type = "completed" /\ events[k + 2].success
            /\ Len(events) = k + 2
            /\ Ended

(* C6: when the reasoning request of an iteration fails the run is         *)
(* aborted: Error then Completed{success: false, totalSteps = number of    *)
(* reasoning steps appended} are emitted, the error is returned, and from  *)
(* then on no reasoning request and no tool invocation is made.            *)
ReasoningFailed == run_result = Some("Err")
C6_FailureState ==
    ReasoningFailed =>
        /\ Ended
        /\ \E k \in 1..(Len(events) - 1) :
              /\ events[k] = ErrorEvent(MsgReasoning)
              /\ events[k + 1] = Completed(FALSE, Len(state.reasoning_steps))
              /\ \A j \in (k + 2)..Len(events) : events[j].type = "error"
        /\ Len(EventsOfType("completed")) = 1
C7_UnknownToolRecorded ==
    /\ [](pc = "unknown_send" =>
            /\ tool_req # None /\ tool_req[1].name \notin DOMAIN tools
            /\ run_result = None)
    /\ [](\A k \in 1..Len(invocations) : invocations[k].tool \in DOMAIN tools)
    /\ [][pc = "unknown_send" =>
            /\ invocations' = invocations
            /\ Len(state'.tool_calls) = Len(state.tool_calls) + 1
            /\ Last(state'.tool_calls).tool_call = tool_req[1]
            /\ Last(state'.tool_calls).outcome.tag = "Error"
            /\ state'.reasoning_steps = state.reasoning_steps
            /\ pc' = "loop" /\ step' = step + 1 /\ run_result' = None
         ]_vars

C7_Witness ==
    /\ pc = "reasoning" /\ requests = 2
    /\ Len(state.tool_calls) = 1
    /\ state.tool_calls[1] = ToolErr(<<"u">>, <<"n", "u", "l", "l">>, MsgUnknown(<<"u">>))
    /\ invocations = <<>>

(* C8: when a tool invocation does not complete within the timeout, the    *)
(* call is abandoned, exactly one error ToolCallResult carrying the        *)
(* timeout error is appended for the step, the step counter already counts *)
(* the reasoning step, and the run goes on with the next iteration.        *)
TimedOut == Len(EventsOfType("error")') > Len(EventsOfType("error"))
            /\ Last(events') .type = "metadata"
            /\ events'[Len(events') - 1] = ErrorEvent(MsgTimeout)
C8_TimeoutRecorded ==
    [][TimedOut =>
        /\ pc \in ToolAwait
        /\ Len(state'.tool_calls) = Len(state.tool_calls) + 1
        /\ Last(state'.tool_calls) = ToolErr(tool_req[1].name, tool_req[1].args, MsgTimeout)
        /\ state'.reasoning_steps = state.reasoning_steps
        /\ Last(state.reasoning_steps) = full_reasoning
        /\ state'.metadata.total_steps = Len(state.reasoning_steps)
        /\ invocations' = invocations
        /\ Len(EventsOfType("toolResult")') = Len(EventsOfType("toolResult"))
        /\ tool_req' = None /\ tool_stream' = <<>> /\ pending' = None
        /\ pc' = "loop" /\ step' = step + 1 /\ run_result' = None
      ]_vars

C8_Witness ==
    /\ pc = "reasoning" /\ requests = 2 /\ Fresh
    /\ Len(state.tool_calls) = 1
    /\ state.tool_calls[1] = ToolErr(<<"t">>, <<"1">>, MsgTimeout)
    /\ invocations = <<Invocation(<<"t">>, "call", <<"1">>)>>
    /\ state.metadata.total_steps = 1

----------------------------------------------------------------------------
(* C11: in a run from a fresh state, for every index i below the length   *)
(* of tool_calls, tool_calls[i] is the result of the tool call extracted   *)
(* from reasoning_steps[i]; hence                                          *)
(* the prompt of the next reasoning request lists each tool call under the *)
(* reasoning step that triggered it, also when earlier steps produced no   *)
(* tool call.                                                              *)
TriggeredBy(text, call) ==
    /\ parse_tool_call(text).tag = "Some"
    /\ call = [name |-> parse_tool_call(text).name, args |-> parse_tool_call(text).args]
C11_ToolCallsAligned ==
    Fresh =>
    /\ \A i \in 1..Len(state.tool_calls) :
          /\ i <= Len(state.reasoning_steps)
          /\ TriggeredBy(state.reasoning_steps[i], state.tool_calls[i].tool_call)
    /\ prompt # None =>
          \A k \in 1..Len(prompt[1]) :
              prompt[1][k].label = "Action" =>
                  /\ prompt[1][k - 1].label = "Thought"
                  /\ TriggeredBy(prompt[1][k - 1].text,
                                 [name |-> prompt[1][k].text, args |-> prompt[1][k + 1].text])

(* C12: in a run started from a fresh AgentState, metadata.total_steps is  *)
(* the length of reasoning_steps and metadata.tool_calls_count the length  *)
(* of tool_calls after every operation; a step of the run grows a counter  *)
(* by one exactly when it appends one reasoning step, respectively one     *)
(* tool result, and never otherwise.                                       *)
CountersMatch(st) ==
    /\ st.metadata.total_steps = Len(st.reasoning_steps)
    /\ st.metadata.tool_calls_count = Len(st.tool_calls)
C12_CountersMatchLengths ==
    /\ [](Fresh => CountersMatch(state))
    /\ [][Fresh =>
            /\ state'.metadata.total_steps - state.metadata.total_steps
                  = Len(state'.reasoning_steps) - Len(state.reasoning_steps)
            /\ state'.metadata.total_steps - state.metadata.total_steps \in {0, 1}
            /\ state'.metadata.tool_calls_count - state.metadata.tool_calls_count
                  = Len(state'.tool_calls) - Len(state.tool_calls)
            /\ state'.metadata.tool_calls_count - state.metadata.tool_calls_count \in {0, 1}
            /\ SubSeq(state'.reasoning_steps, 1, Len(state.reasoning_steps))
                  = state.reasoning_steps
            /\ SubSeq(state'.tool_calls, 1, Len(state.tool_calls)) = state.tool_calls
         ]_vars

C12_Witness ==
    /\ Fresh /\ pc = "loop" /\ step = 2
    /\ state.metadata.total_steps = 2 /\ Len(state.reasoning_steps) = 2
    /\ state.metadata.tool_calls_count = 2 /\ Len(state.tool_calls) = 2
    /\ state.tool_calls[1].outcome.tag = "Success"
    /\ state.tool_calls[2].outcome.tag = "Error"

(* C13: extraction tries, in this order, (a) the whole trimmed text, (b)   *)
(* the content of the first fenced block labelled json, (c) the substring  *)
(* from the first { to the last }, (d) the text after Action Input: on a   *)
(* line starting with it, and returns the call of the first candidate that *)
(* parses as JSON with a string field tool (name = tool, args = the args   *)
(* field); when no candidate qualifies it returns no tool call.            *)
\* Reference reading of the four candidates: None when the text has none.
RefWhole(text) == Some(Trim(text))
RefFence(text) ==
    IF ~Contains(text, FENCE_JSON) THEN None
    ELSE Some(Trim(BeforeFirst(AfterFirst(text, FENCE_JSON), FENCE)))
RefBraces(text) ==
    LET span == {<<i, j>> \in (1..Len(text)) \X (1..Len(text)) :
                    /\ i <= j /\ text[i] = "{" /\ text[j] = "}"
                    /\ \A k \in 1..(i - 1) : text[k] # "{"
                    /\ \A k \in (j + 1)..Len(text) : text[k] # "}"}
    IN IF span = {} THEN None
       ELSE LET ij == CHOOSE x \in span : TRUE IN Some(SubSeq(text, ij[1], ij[2]))
RefActionInput(text) ==
    LET ls   == Lines(text)
        hits == {k \in 1..Len(ls) : StartsWith(Trim(ls[k]), ACTION_INPUT)}
    IN IF hits = {} THEN None
       ELSE Some(Trim(AfterFirst(ls[Min(hits)], ACTION_INPUT)))
Qualifies(c) == c # None /\ from_str(c[1]) # None /\ from_str(c[1])[1].tool # None
CallOf(c) == ToolCallEvent(from_str(c[1])[1].tool[1], from_str(c[1])[1].args)
RefExtract(text) ==
    IF Qualifies(RefWhole(text)) THEN Some(CallOf(RefWhole(text)))
    ELSE IF Qualifies(RefFence(text)) THEN Some(CallOf(RefFence(text)))
    ELSE IF Qualifies(RefBraces(text)) THEN Some(CallOf(RefBraces(text)))
    ELSE IF Qualifies(RefActionInput(text)) THEN Some(CallOf(RefActionInput(text)))
    ELSE None
\* the step done at events[k] went on to tool-call extraction
Extracted(k) ==
    /\ events[k].type = "reasoningStepDone"
    /\ ~Contains(to_lowercase(events[k].content), MARKER)
C13_FirstQualifyingCandidate ==
    \A k \in 1..Len(events) :
        Extracted(k) =>
            IF RefExtract(events[k].content) # None
            THEN /\ Len(events) > k
                 /\ events[k + 1] = RefExtract(events[k].content)[1]
            ELSE /\ Len(events) > k => events[k + 1].type # "toolCall"
                 /\ Len(events) = k => pc # "panicked"

(* C14: extraction is total: for every reasoning text, also one in which a *)
(* } occurs only before the first {, it returns one tool call or none; it  *)
(* never fails and never aborts the run.                                   *)
C14_ExtractionTotal ==
    /\ \A k \in 1..Len(events) :
          events[k].type = "reasoningStepDone" =>
              parse_tool_call(events[k].content).tag \in {"Some", "None"}
    /\ pc = "panicked" =>
          extract_final_answer(Last(state.reasoning_steps)).tag = "Panic"

----------------------------------------------------------------------------
(* Observations on a tool call *)

\* the non-streaming ToolResult events, the success results recorded
FinalResults == SelectSeq(events, LAMBDA e : e.type = "toolResult" /\ ~e.is_streaming)
Successes == SelectSeq(state.tool_calls, LAMBDA r : r.outcome.tag = "Success")

\* index of the ToolCall event of the call in flight
LastToolCallAt == Max({k \in 1..Len(events) : events[k].type = "toolCall"})
RECURSIVE ResultsOf(_)
ResultsOf(evs) == IF evs = <<>> THEN <<>> ELSE <<Head(evs).result>> \o ResultsOf(Tail(evs))
\* the chunks emitted so far for the call in flight
ChunksEmitted ==
    ResultsOf(SelectSeq(SubSeq(events, LastToolCallAt + 1, Len(events)),
                        LAMBDA e : e.type = "toolResult" /\ e.is_streaming))

(* C15: whenever a tool call succeeds, by the synchronous or the streaming *)
(* path, a success ToolCallResult is recorded and a non-streaming          *)
(* ToolResult event carrying its result value (for streaming: the          *)
(* aggregate of the chunks) is emitted: the success results recorded and   *)
(* the non-streaming ToolResult events correspond one to one.              *)
C15_SuccessResultEmitted ==
    /\ Len(FinalResults) = Len(Successes)
    /\ \A i \in 1..Len(Successes) :
          /\ i <= Len(FinalResults)
          /\ FinalResults[i].name = Successes[i].tool_call.name
          /\ FinalResults[i].result = Successes[i].outcome.result

(* C16: a tool that supports streaming is invoked by its streaming path    *)
(* first; every chunk taken from its stream is emitted as one streaming    *)
(* ToolResult event before the next chunk is taken or the call returns, so *)
(* in production order; acc is the concatenation of the chunks emitted,    *)
(* and it is the success result recorded when the stream ends; while the   *)
(* stream is read the synchronous path is not invoked. (Only the timeout   *)
(* of the tool call ends a streaming call early.)                          *)
C16_StreamingPath ==
    /\ [](pc \in {"call_stream", "stream_next", "stream_send"} =>
            /\ tools[tool_req[1].name].supports_stream
            /\ Last(invocations)
                 = Invocation(tool_req[1].name, "call_stream", tool_req[1].args))
    /\ [](pc \in {"stream_next", "stream_send"} => acc = Concat(ChunksEmitted))
    /\ [](pc = "stream_send" => pending # None)
    /\ [][(pc = "reasoning" /\ invocations' # invocations) =>
            /\ Len(invocations') = Len(invocations) + 1
            /\ Last(invocations').kind
                 = IF tools[Last(invocations').tool].supports_stream
                   THEN "call_stream" ELSE "call"]_vars
    /\ [][pc = "stream_send" =>
            \/ TimedOut
            \/ /\ events' = Append(events, ToolResult(tool_req[1].name, pending[1], TRUE))
               /\ acc' = acc \o pending[1]
               /\ tool_stream' = tool_stream
               /\ invocations' = invocations
               /\ state' = state
               /\ pc' = "stream_next"]_vars
    /\ [][pc = "stream_next" =>
            \/ TimedOut
            \/ /\ tool_stream # <<>>
               /\ pending' = Some(Head(tool_stream))
               /\ tool_stream' = Tail(tool_stream)
               /\ events' = events /\ acc' = acc /\ invocations' = invocations
               /\ state' = state
               /\ pc' = "stream_send"
            \/ /\ tool_stream = <<>>
               /\ state'.tool_calls
                    = Append(state.tool_calls,
                             Success(tool_req[1].name, tool_req[1].args, acc))
               /\ invocations' = invocations
               /\ Len(EventsOfType("toolResult")') = Len(EventsOfType("toolResult"))
               /\ pc' = "loop"]_vars

C16_Witness ==
    /\ pc = "loop" /\ step = 1 /\ Fresh
    /\ state.tool_calls
         = << Success(<<"s">>, <<"n", "u", "l", "l">>, <<"x", "y", "z">>) >>
    /\ invocations = << Invocation(<<"s">>, "call_stream", <<"n", "u", "l", "l">>) >>
    /\ \E k \in 1..(Len(events) - 1) :
          /\ events[k] = ToolResult(<<"s">>, <<"x">>, TRUE)
          /\ events[k + 1] = ToolResult(<<"s">>, <<"y", "z">>, TRUE)

(* C17: when the streaming call of a tool that reports streaming support   *)
(* fails, the synchronous call of the same tool is invoked with the same   *)
(* arguments in the same iteration, and the ToolCallResult recorded for    *)
(* the step is the outcome of that synchronous call: its value as a        *)
(* success, its failure as an error. (Only the timeout of the tool call    *)
(* ends the call before that.)                                             *)
FellBack ==
    /\ pc \in {"call", "result_send"}
    /\ tools[tool_req[1].name].supports_stream
C17_StreamFailureFallsBack ==
    /\ [](pc = "stream_err_send" =>
            /\ tools[tool_req[1].name].supports_stream
            /\ Last(invocations)
                 = Invocation(tool_req[1].name, "call_stream", tool_req[1].args))
    /\ [](FellBack =>
            /\ Len(invocations) >= 2
            /\ Last(invocations) = Invocation(tool_req[1].name, "call", tool_req[1].args)
            /\ invocations[Len(invocations) - 1]
                 = Invocation(tool_req[1].name, "call_stream", tool_req[1].args)
            /\ Last(state.reasoning_steps) = full_reasoning)
    /\ [][pc = "stream_err_send" =>
            \/ TimedOut
            \/ /\ invocations' = Append(invocations,
                       Invocation(tool_req[1].name, "call", tool_req[1].args))
               /\ step' = step /\ state' = state /\ tool_req' = tool_req
               /\ pc' = "call"]_vars
    /\ [][FellBack =>
            \/ TimedOut
            \/ /\ pc = "call" /\ pc' = "result_send"
               /\ pending' # None
               /\ state' = state /\ invocations' = invocations /\ step' = step
            \/ /\ pc = "call" /\ pc' = "loop"
               /\ state'.tool_calls
                    = Append(state.tool_calls,
                             ToolErr(tool_req[1].name, tool_req[1].args, MsgToolFailed))
               /\ invocations' = invocations
            \/ /\ pc = "result_send" /\ pc' = "loop"
               /\ state'.tool_calls
                    = Append(state.tool_calls,
                             Success(tool_req[1].name, tool_req[1].args, pending[1]))
               /\ invocations' = invocations]_vars

C17_Witness ==
    /\ pc = "loop" /\ step = 1 /\ Fresh
    /\ state.tool_calls = << Success(<<"s">>, <<"n", "u", "l", "l">>, <<"v">>) >>
    /\ invocations = << Invocation(<<"s">>, "call_stream", <<"n", "u", "l", "l">>),
                        Invocation(<<"s">>, "call", <<"n", "u", "l", "l">>) >>
    /\ \E k \in 1..Len(events) : events[k] = ErrorEvent(MsgStreamFailed)

(* C18: an iteration whose accumulated reasoning text is empty or consists *)
(* of whitespace only leaves the run state unchanged: no reasoning step is *)
(* appended, the counters and tool_calls keep their values, no tool call   *)
(* is extracted or invoked; the iteration still uses up one of the         *)
(* max_steps iterations.                                                   *)
OnlyWhitespace(text) == \A k \in 1..Len(text) : IsWhitespace(text[k])
C18_BlankIterationSkipped ==
    [][(pc = "reasoning" /\ stream = <<>> /\ OnlyWhitespace(full_reasoning)) =>
        /\ state' = state
        /\ invocations' = invocations
        /\ tool_req' = None
        /\ Len(EventsOfType("reasoningStepDone")') = Len(EventsOfType("reasoningStepDone"))
        /\ Len(EventsOfType("toolCall")') = Len(EventsOfType("toolCall"))
        /\ requests' = requests
        /\ step' = step + 1 /\ step < max_steps
        /\ pc' = "loop"
      ]_vars

C18_Witness ==
    /\ pc = "done" /\ Fresh /\ Exhausted
    /\ max_steps = 2 /\ requests = 2 /\ step = 2
    /\ state.reasoning_steps = <<>> /\ state.tool_calls = <<>>
    /\ state.metadata.total_steps = 0
    /\ \E k \in 1..Len(events) : events[k] = ReasoningToken(<<"\n">>)

----------------------------------------------------------------------------
(* C19: if the consumer stops reading the event stream at any point of a   *)
(* run, the run still goes on to its terminal state: a send that fails is  *)
(* ignored and no send blocks the run for ever. A consumer that has        *)
(* stopped never reads again, so no send of the run may be suspended on a  *)
(* full channel once the consumer has stopped.                             *)
C19_NoSendBlocksForever ==
    (rx # "reading" /\ sent < Len(events)) => CanSend

(* C20: the channel never holds more than Capacity (32) undelivered        *)
(* events; while it is full and open no send returns, the task with a      *)
(* suspended send takes no step until the consumer takes an event (inside  *)
(* call_tool the timeout may cancel the send); and while the consumer      *)
(* keeps reading, the events delivered followed by the events buffered are *)
(* the events sent, each once and in emission order.                       *)
ChanFull == Len(chan) = Capacity /\ rx # "dropped"
C20_BoundedOrderedDelivery ==
    /\ [](Len(chan) <= Capacity)
    /\ [](sent <= Len(events))
    /\ [](rx = "reading" => delivered \o chan = SubSeq(events, 1, sent))
    /\ [][(ChanFull /\ rx' # "dropped") =>
            /\ sent' = sent
            /\ \/ chan' = chan /\ delivered' = delivered
               \/ chan' = Tail(chan) /\ delivered' = Append(delivered, Head(chan))
            /\ sent < Len(events) => (events' = events /\ pc' = pc /\ state' = state)
            /\ pc \in SendPoints => (TimedOut \/ (pc' = pc /\ events' = events))
         ]_vars

C20_Witness ==
    /\ rx = "reading"
    /\ Len(chan) = Capacity
    /\ sent < Len(events)
    /\ Len(delivered) >= 2
    /\ delivered \o chan = SubSeq(events, 1, sent)

----------------------------------------------------------------------------
(* C21: two runs started on the same agent do not interfere, whatever the  *)
(* interleaving of their tasks: a step of one run's task is a step that run *)
(* takes when it is executed alone, and it leaves every field of the other  *)
(* run, its event sequence and its state among them, as it was; a switch of *)
(* tasks hands each run its own fields back unchanged.                      *)
C21_RunsIsolated ==
    [][ \/ /\ task' = task
           /\ other' = other
           /\ RunFields' # RunFields =>
                  \/ \E st \in InitialStates : react_stream(st)
                  \/ Next
        \/ /\ task' # task
           /\ other' = Some(RunFields)
           /\ RunFields' = other[1] ]_vars

\* both runs are in the middle of a tool call, started with different tools
\* and with different events behind them
C21_Witness ==
    /\ other # None
    /\ pc \in ToolAwait
    /\ other[1].pc \in ToolAwait
    /\ tools # other[1].tools
    /\ tool_req # other[1].tool_req
    /\ Len(events) >= 3
    /\ Len(other[1].events) >= 3
    /\ events # other[1].events

(* C22: the tools a run resolves names against are those registered on the *)
(* agent when react_stream was called: no step of a run changes the run's   *)
(* tools or the agent's, register_tool does not change the tools of a run   *)
(* in flight, the Started event lists the names registered at the start,    *)
(* and a name is unknown, streamed or called as the run's tools say.        *)
C22_RegistryFixedAtStart ==
    /\ [][ /\ task' = task =>
                /\ (pc = "idle" /\ pc' # "idle") => tools' = registry
                /\ pc # "idle" => tools' = tools
           /\ RunFields' # RunFields => registry' = registry ]_vars
    /\ [](\A k \in 1..Len(events) :
              events[k].type = "started" => events[k].tools = DOMAIN tools)
    /\ [](pc = "unknown_send" => tool_req[1].name \notin DOMAIN tools)
    /\ [](pc \in {"call_stream", "stream_next", "stream_send"} =>
              /\ tool_req[1].name \in DOMAIN tools
              /\ tools[tool_req[1].name].supports_stream)
    /\ [](pc \in {"call", "result_send"} =>
              /\ tool_req[1].name \in DOMAIN tools
              /\ ~tools[tool_req[1].name].supports_stream
                   \/ \E k \in 1..Len(events) : events[k] = ErrorEvent(MsgStreamFailed))

\* u was registered and s was replaced by a streaming tool after both runs
\* had started: one run finds u unknown, the other calls the s it started with
C22_Witness ==
    /\ other # None
    /\ pc = "unknown_send"
    /\ tool_req[1].name = <<"u">>
    /\ <<"u">> \in DOMAIN registry
    /\ other[1].pc = "call"
    /\ other[1].tool_req[1].name = <<"s">>
    /\ registry[<<"s">>].supports_stream
    /\ \E k \in 1..Len(events) : events[k] = Started(ConcurrentSteps, {<<"s">>})

(* C23: when the SSE sequence yields an error item while the tokens of a   *)
(* step are streamed, the run is aborted in that step: an Error event and  *)
(* Completed{success: false} are emitted and the run returns, so that no    *)
(* reasoning phase and no tool call follows.                                *)
C23_StreamErrorAborts ==
    [][(pc = "reasoning" /\ stream # <<>> /\ Head(stream) = SseError /\ stream' = Tail(stream))
         => /\ pc' = "returned"
            /\ Len(events') >= 2
            /\ events'[Len(events') - 1].type = "error"
            /\ Last(events') = Completed(FALSE, state'.metadata.total_steps)]_vars

(* C24: during a reasoning phase every token that arrives is forwarded as  *)
(* one ReasoningToken event, in arrival order: a token is appended to the   *)
(* accumulated text and buffered, the buffer is released, whole and in      *)
(* order, only when it holds 5 tokens or when the token stream has ended;   *)
(* the forwarded tokens and the buffered ones concatenated are the          *)
(* accumulated text, and that text is the content of the ReasoningStepDone  *)
(* event the end of the stream emits, if it emits one.                      *)
TokenContents(n) == [k \in 1..n |-> events[Len(events) - n + k].content]
C24_TokensForwarded ==
    /\ [](pc = "reasoning" =>
            /\ Len(token_buffer) < 5
            /\ \E n \in 0..Len(events) :
                  /\ n % 5 = 0
                  /\ \A k \in 1..n : events[Len(events) - n + k].type = "reasoningToken"
                  /\ Concat(TokenContents(n)) \o Concat(token_buffer) = full_reasoning)
    /\ [][pc = "reasoning" =>
            IF stream # <<>> /\ Head(stream) # SseError THEN
                LET buffered == Append(token_buffer, Head(stream)) IN
                /\ full_reasoning' = full_reasoning \o Head(stream)
                /\ \/ events' = events /\ token_buffer' = buffered
                   \/ /\ Len(buffered) = 5
                      /\ events' = events \o TokenEvents(buffered)
                      /\ token_buffer' = <<>>
            ELSE IF stream = <<>> THEN
                LET released == Len(events) + Len(token_buffer) IN
                /\ Len(events') >= released
                /\ SubSeq(events', 1, released) = events \o TokenEvents(token_buffer)
                /\ \A k \in (released + 1)..Len(events') :
                      /\ events'[k].type # "reasoningToken"
                      /\ events'[k].type = "reasoningStepDone" =>
                            k = released + 1 /\ events'[k].content = full_reasoning
            ELSE
                /\ events' = events
                /\ token_buffer' = token_buffer
                /\ full_reasoning' = full_reasoning]_vars

\* six of the seven tokens of a text have arrived: five were released as
\* one batch, the sixth is buffered
C24_Witness ==
    /\ pc = "reasoning"
    /\ stream = << R_T[7] >>
    /\ token_buffer = << R_T[6] >>
    /\ Len(events) >= 5
    /\ SubSeq(events, Len(events) - 4, Len(events)) = TokenEvents(SubSeq(R_T, 1, 5))
    /\ full_reasoning = Concat(SubSeq(R_T, 1, 6))

----------------------------------------------------------------------------
(* Fields of a line, read off the raw line *)

LineRead == lineLog' # lineLog
HasField(raw, prefix) == StartsWith(raw, prefix) /\ Len(raw) > Len(prefix)
FieldValue(raw, prefix) == SubSeq(raw, Len(prefix) + 1, Len(raw))
IsCommentLine(raw) == StartsWith(raw, <<":">>)

(* C25: the last seen event id changes only when an `id: <id>` line is     *)
(* read, and then to <id>: every other line, a blank line that closes a     *)
(* record and clears the event type included, and every end of input        *)
(* leaves it as it was set or seeded.                                       *)
C25_IdPersists ==
    [][last_event'[2] =
          IF LineRead /\ HasField(Last(lineLog'), P_ID)
          THEN Some(FieldValue(Last(lineLog'), P_ID))
          ELSE last_event[2]]_vars

\* an id line, then a record closed by a blank line: the id is still there
C25_Witness ==
    /\ lineLog = << P_ID \o <<"1">>, P_DATA \o <<"a">>, <<>> >>
    /\ last_event = <<None, Some(<<"1">>)>>
    /\ Len(SelectCalls("handle_data")) = 1
    /\ data = <<>>

C28_EventTypeClearedAtBoundary ==
    (lineLog # <<>> /\ Last(lineLog) = <<>>) => last_event[1] = None

----------------------------------------------------------------------------
(* C29: the events of a run follow the run's state machine. Started is the *)
(* first event and occurs once. The events between two Metadata events (or  *)
(* between Started and the first Metadata) are those of one iteration, after*)
(* the tokens of iterations that were skipped: in them ReasoningToken       *)
(* events come before ReasoningStepDone, which comes before the one         *)
(* ToolCall event, which comes before the ToolResult and Error events of    *)
(* the call, which come before the Metadata event; so no event of a later   *)
(* iteration precedes one of an earlier iteration.                          *)
CallErrors == {"unknown tool", "timeout", "tool failed", "stream failed"}
IsCallError(e) == e.type = "error" /\ Head(e.message) \in CallErrors
Ranked(e) ==
    \/ e.type \in {"reasoningToken", "reasoningStepDone", "toolCall", "toolResult", "metadata"}
    \/ IsCallError(e)
Rank(e) ==
    CASE e.type = "reasoningToken" -> 1
      [] e.type = "reasoningStepDone" -> 2
      [] e.type = "toolCall" -> 3
      [] e.type = "toolResult" -> 4
      [] e.type = "error" -> 4
      [] e.type = "metadata" -> 5
\* events i < j of one iteration: no Metadata event from i to j - 1
SameIteration(i, j) ==
    /\ i < j
    /\ events[i].type # "started"
    /\ \A m \in i..(j - 1) : events[m].type # "metadata"
PrecededBy(j, t) == \E i \in 1..Len(events) : SameIteration(i, j) /\ events[i].type = t
C29_EventOrder ==
    /\ events # <<>> => events[1].type = "started"
    /\ \A k \in 2..Len(events) : events[k].type # "started"
    /\ \A i \in 1..Len(events) : \A j \in 1..Len(events) :
          (SameIteration(i, j) /\ Ranked(events[i]) /\ Ranked(events[j])) =>
              /\ Rank(events[i]) <= Rank(events[j])
              /\ Rank(events[i]) = Rank(events[j]) => Rank(events[i]) \in {1, 4}
    /\ \A j \in 1..Len(events) :
          /\ events[j].type = "reasoningStepDone" => PrecededBy(j, "reasoningToken")
          /\ events[j].type = "toolCall" => PrecededBy(j, "reasoningStepDone")
          /\ (events[j].type = "toolResult" \/ IsCallError(events[j])) => PrecededBy(j, "toolCall")
          /\ events[j].type = "metadata" => PrecededBy(j, "reasoningStepDone")

\* an iteration with a streamed tool call is complete and the second
\* iteration has reached its ToolCall event
C29_Witness ==
    /\ Len(EventsOfType("metadata")) = 1
    /\ Len(EventsOfType("reasoningStepDone")) = 2
    /\ Len(EventsOfType("toolCall")) = 2
    /\ Len(EventsOfType("toolResult")) >= 2
    /\ \E k \in 1..Len(events) : IsCallError(events[k])
    /\ Last(events).type = "toolCall"

(* C30: in a run started from a fresh state every Metadata event carries   *)
(* the metadata of the run state at its emission: its total_steps is the    *)
(* number of ReasoningStepDone events emitted before it and its             *)
(* tool_calls_count the number of ToolCall events emitted before it.        *)
CountBefore(k, t) == Cardinality({i \in 1..(k - 1) : events[i].type = t})
C30_MetadataReflectsState ==
    /\ [](Fresh => \A k \in 1..Len(events) :
              events[k].type = "metadata" =>
                  /\ events[k].data.total_steps = CountBefore(k, "reasoningStepDone")
                  /\ events[k].data.tool_calls_count = CountBefore(k, "toolCall"))
    /\ [][(Fresh /\ Len(events') > Len(events) /\ Last(events').type = "metadata")
             => Last(events').data = state'.metadata]_vars

\* a step without a tool call, then a step with one: the second Metadata
\* event counts two steps and one tool call
C30_Witness ==
    /\ Fresh
    /\ Len(EventsOfType("metadata")) = 2
    /\ Last(events) = Metadata([total_steps |-> 2, tool_calls_count |-> 1, completed |-> FALSE])
    /\ state.metadata = Last(events).data

----------------------------------------------------------------------------
(* C31: for every generated enum, serialising a variant yields the string  *)
(* declared for it, deserialising that string yields the same variant, and  *)
(* deserialising a string that no variant declares is an error.             *)
C31_EnumRoundTrip ==
    /\ wire # None =>
          /\ \E i \in 1..Len(decl) : decl[i] = Variant(wire[1].var, wire[1].str)
          /\ (parsed # None /\ parsed[1].input = wire[1].str) =>
                 parsed[1].result = [tag |-> "Ok", var |-> wire[1].var]
    /\ parsed # None =>
          (parsed[1].result.tag = "Err" <=> parsed[1].input \notin DeclaredBy(decl))

\* the last variant of an enum was serialised and read back
C31_Witness ==
    /\ decl = HostedTool
    /\ wire = Some([var |-> "ImageGeneration", str |-> "image_generation"])
    /\ parsed = Some([input |-> "image_generation",
                      result |-> [tag |-> "Ok", var |-> "ImageGeneration"]])

----------------------------------------------------------------------------
----------------------------------------------------------------------------
(* C33: every ToolCall event is followed, within the same iteration, by    *)
(* exactly one appended ToolCallResult, whichever path the call takes      *)
(* (unknown name, streaming, synchronous fallback, failure, timeout): a    *)
(* ToolCall event is outstanding exactly while the call is awaited, the    *)
(* iteration ends by appending one result for the request of that event,   *)
(* and tool_calls changes at no other moment. At most one call is made per *)
(* reasoning step, so in a run from a fresh state tool_calls is never      *)
(* longer than reasoning_steps.                                            *)
ToolCallEvents == Len(EventsOfType("toolCall"))
Recorded == Len(state.tool_calls) - Len(state0.tool_calls)
C33_State ==
    /\ pc \in ToolAwait =>
          /\ ToolCallEvents = Recorded + 1
          /\ tool_req # None
          /\ Last(EventsOfType("toolCall")) = ToolCallEvent(tool_req[1].name, tool_req[1].args)
    /\ pc \notin ToolAwait => ToolCallEvents = Recorded
    /\ ToolCallEvents <= Len(state.reasoning_steps) - Len(state0.reasoning_steps)
    /\ Fresh => Len(state.tool_calls) <= Len(state.reasoning_steps)
C33_OneResultPerToolCall ==
    /\ []C33_State
    /\ [][ /\ state'.tool_calls # state.tool_calls =>
                /\ pc \in ToolAwait /\ pc' = "loop" /\ step' = step + 1
                /\ Len(state'.tool_calls) = Len(state.tool_calls) + 1
                /\ SubSeq(state'.tool_calls, 1, Len(state.tool_calls)) = state.tool_calls
                /\ Last(state'.tool_calls).tool_call = tool_req[1]
                /\ state'.reasoning_steps = state.reasoning_steps
           /\ (pc \in ToolAwait /\ pc' \notin ToolAwait) =>
                Len(state'.tool_calls) = Len(state.tool_calls) + 1
           /\ (pc \in ToolAwait /\ pc' \in ToolAwait) => step' = step
         ]_vars

\* A run of two iterations, each with a tool call: the first call failed,
\* the second answered, and each left one result.
C33_Witness ==
    /\ Fresh /\ pc = "loop"
    /\ ToolCallEvents = 2 /\ Len(state.tool_calls) = 2 /\ Len(state.reasoning_steps) = 2
    /\ state.tool_calls[1].outcome.tag = "Error"
    /\ state.tool_calls[2].outcome.tag = "Success"

----------------------------------------------------------------------------
(* C34: for a tool call to a name that is not registered, exactly one      *)
(* Error event is emitted for that call: between the ToolCall event and    *)
(* the Metadata event that ends its iteration there is one Error event.    *)
C34_OneErrorForUnknownTool ==
    \A k \in 1..Len(events) :
        (/\ events[k].type = "toolCall"
         /\ events[k].name \notin DOMAIN tools
         /\ \E m \in (k + 1)..Len(events) : events[m].type = "metadata") =>
            LET m == Min({j \in (k + 1)..Len(events) : events[j].type = "metadata"})
            IN  Cardinality({j \in (k + 1)..(m - 1) : events[j].type = "error"}) = 1

----------------------------------------------------------------------------
(* C35: every line `data: <chunk>` other than the sentinel, the chunk      *)
(* empty or ending in spaces included, is handled by the data rule: the    *)
(* chunk (up to the spaces around the line) is appended to the payload     *)
(* buffer and the unexpected buffer is left alone. An `event: `, `id: ` or *)
(* `retry: ` line with an empty value is not unexpected content either.    *)
EmptyField(raw) == raw \in {P_EVENT, P_ID, P_RETRY}
C35_FieldLinesNotUnexpected ==
    [][LineRead =>
         LET raw == Last(lineLog') IN
         /\ (IsDataLine(raw) /\ ~IsDoneLine(raw)) =>
                /\ unexpected' = unexpected
                /\ data' \in {PushJoined(data, ChunkOf(raw)), PushJoined(data, Trim(ChunkOf(raw)))}
         /\ EmptyField(raw) => unexpected' = unexpected
      ]_vars

----------------------------------------------------------------------------
(* C36: handle_data is invoked exactly when a blank line is read while the *)
(* payload buffer is non-empty, once, with the buffer. When the input ends *)
(* without a sentinel while the payload buffer is non-empty, the payload   *)
(* of the unclosed record is not passed to handle_data and yields no item. *)
HdCalls == SelectCalls("handle_data")
OkItems == SelectSeq(polls, LAMBDA p : p.tag = "Ok")
BlankRead == LineRead /\ Trim(Last(lineLog')) = <<>>
C36_UnclosedRecordDropped ==
    [][ /\ IF BlankRead /\ data # <<>>
           THEN HdCalls' = Append(HdCalls, Call("handle_data", data, Last(HdCalls').ok))
           ELSE /\ HdCalls' = HdCalls
                /\ OkItems' = OkItems
        /\ (framer' = "eof" /\ data # <<>>) =>
              /\ HdCalls' = HdCalls /\ OkItems' = OkItems /\ data' = data
      ]_vars

\* the input ended inside a record: no call, no item, the payload is still
\* in the buffer
C36_Witness ==
    /\ lineLog = << P_DATA \o <<"a">>, <<>>, P_DATA \o <<"b", " ">> >>
    /\ framer = "eof" /\ ~DoneRead
    /\ data = <<"b">>
    /\ calls = << Call("handle_data", <<"a">>, TRUE) >>
    /\ polls = << OkItem(<<"a">>), End >>

----------------------------------------------------------------------------
(* C37: handle_unexpected is invoked only when the upstream input ends,    *)
(* and at most once per decoder; a blank line never flushes the unexpected *)
(* buffer; and once a `data: [DONE]` line has ended the sequence, the      *)
(* unexpected content accumulated so far is never handed to                *)
(* handle_unexpected.                                                      *)
C37_UnexpectedOnlyAtEnd ==
    [][ /\ HuCalls' # HuCalls => (~LineRead /\ framer' = "eof" /\ HuCalls = <<>>)
        /\ BlankRead => (unexpected' = unexpected /\ HuCalls' = HuCalls)
        /\ DoneRead => HuCalls' = HuCalls
      ]_vars

----------------------------------------------------------------------------
(* C38: with ApiEventHandler, a stream that reaches the end of the input   *)
(* with non-empty unexpected content never ends silently: the end of the   *)
(* input yields exactly one error item, after which the sequence has       *)
(* ended. The item is the API error when the content parses as an error    *)
(* envelope, and otherwise an error that carries the raw content.          *)
AtEndItems == {k \in 1..Len(polls) : polls[k].tag = "Err" /\ polls[k].src = "handle_unexpected"}
C38_ApiUnexpectedIsError ==
    (framer = "eof" /\ UnexpectedContent(lineLog) # <<>>) =>
        LET content == UnexpectedContent(lineLog)
            envelope == ParseApiErrorWrapper(content)
        IN
        /\ Cardinality(AtEndItems) = 1
        /\ \A k \in AtEndItems :
              /\ polls[k].error = IF envelope # None
                                  THEN [kind |-> "Api", error |-> envelope[1]]
                                  ELSE [kind |-> "Any", text |-> content]
              /\ \A j \in (k + 1)..Len(polls) : polls[j] = End
        /\ HuCalls = << Call("handle_unexpected", content, FALSE) >>

\* an error envelope sent over two lines without SSE framing
C38_Witness ==
    /\ lineLog = << ENVELOPE_HEAD, ENVELOPE_BODY >>
    /\ framer = "eof"
    /\ polls = << ApiErrItem("handle_unexpected",
                             [kind |-> "Api", error |-> [type |-> <<"t">>, message |-> <<"m">>]]),
                  End >>

----------------------------------------------------------------------------
(* C39: the completion check made before a reasoning request ends the run  *)
(* only in the first iteration, and then because the last reasoning step   *)
(* of the caller's initial state has a final answer. In every later        *)
(* iteration it finds nothing: the check made right after the step was     *)
(* appended has ended the run already, or the last step has no extractable *)
(* answer. The check reads the last step only of a non-empty list.         *)
HeadCheckEnds ==
    /\ pc = "loop"
    /\ \/ pc' = "panicked"
       \/ pc' = "returned" /\ Last(events').type = "completed" /\ Last(events').success
C39_HeadCheckOnlyFirst ==
    /\ []((pc = "loop" /\ InLoop /\ is_complete(state)) => state.reasoning_steps # <<>>)
    /\ []((pc = "loop" /\ InLoop /\ step > 0) => HeadCheck.tag = "None")
    /\ [][HeadCheckEnds =>
            /\ step = 0 /\ requests = 0 /\ state = state0
            /\ state0.reasoning_steps # <<>>
            /\ extract_final_answer(Last(state0.reasoning_steps)).tag # "None"
         ]_vars

\* the caller's state ends with a final answer: the run ends before any request
C39_Witness ==
    /\ pc = "returned" /\ step = 0 /\ requests = 0
    /\ state0 = add_step(NewState, Concat(R_FINAL))
    /\ Len(events) = 3
    /\ events[2].type = "finalAnswer"
    /\ events[3] = Completed(TRUE, 1)

============================================================================
